---- MODULE Spec2Model ----
(***************************************************************************)
(* The LLM client layer of the payment classifier: BaseLLMClient.classify  *)
(* (validation, semaphore admission, error translation, metrics) over the  *)
(* three provider clients (Ollama, OpenAI, Gemini), each with its retry    *)
(* policy and its response parser.                                         *)
(***************************************************************************)
EXTENDS Integers, Sequences, FiniteSets, TLC

VARIABLES calls, sem, session, search_service,
          llm_clients, manager, constructed, lookups,
          gs_session, gs_call,
          http, life

\* the provider clients and their classify calls
clientvars == <<calls, sem, session, search_service>>
\* the client caches and the lookups made in them
cachevars == <<llm_clients, manager, constructed, lookups>>
\* the Google search service and its search calls
searchvars == <<gs_session, gs_call>>
\* the /classify endpoint's request and the application's lifespan
appvars == <<http, life>>

vars == <<calls, sem, session, search_service,
          llm_clients, manager, constructed, lookups, gs_session, gs_call,
          http, life>>

(* ------------------------------ bounds -------------------------------- *)

\* config.max_retries of every client (stop_after_attempt)
MaxRetries == 2
\* config.max_concurrent_requests of every client
MaxConcurrent == 2
\* config.max_categories
MaxCategories == 2
\* config.max_payment_text_length
MaxTextLen == 2
\* concurrent callers of SpecConc
NumCalls == 3
\* concurrent client lookups of SpecCache
NumLookups == 2
\* max_retries of the search service (stop_after_attempt)
SearchMaxRetries == 2
\* the most categories a ClassificationRequest may hold (20 in the code)
MaxRequestCategories == 2
\* concurrent callers of SpecFair
NumFairCalls == 2
\* max_concurrent_requests of the client of SpecFair
FairConcurrent == 1

Calls == 1..NumCalls

Lookers == 1..NumLookups

Providers == {"ollama", "openai", "gemini"}

Chars == {" ", "a"}
Labels == {"food"}

SeqsUpTo(S, n) == UNION {[1..k -> S] : k \in 0..n}

\* payment texts up to one character past the configured maximum
Texts == SeqsUpTo(Chars, MaxTextLen + 1)
\* category lists up to one entry past the configured maximum
CatLists == SeqsUpTo(Labels, MaxCategories + 1)
\* correlation ids a caller passes; "" stands for None (and the empty string)
CallerCids == {"", "req-1"}

(* --------------------------- configuration ---------------------------- *)

\* get_model_name() of each client: the model of its config
ModelName(p) ==
    CASE p = "ollama" -> "qwen2.5:1.5b"
      [] p = "openai" -> "gpt-4o-mini"
      [] p = "gemini" -> "gemini-2.5-flash"

(* ----------------------------- exceptions ----------------------------- *)

\* An exception object: its class, the correlation_id and model attributes
\* (LLMClientError.__init__; "" is None), the class of its __cause__ and,
\* for a status error, the HTTP status.
Exc(kind, cid, model, cause, status) ==
    [kind |-> kind, cid |-> cid, model |-> model, cause |-> cause, status |-> status]

NoExc == Exc("", "", "", "", 0)

\* LLMClientError and its four subclasses
Taxonomy ==
    {"LLMClientError", "LLMTimeoutError", "LLMParseError", "LLMRateLimitError",
     "LLMValidationError"}

\* (variant: the exact class compared, subclasses not recognised)
IsKnownErrorExact(e) == e.kind \in {"LLMClientError", "LLMValidationError"}

\* isinstance(e, (LLMClientError, LLMValidationError))
IsKnownError(e) == e.kind \in Taxonomy

\* the classes of aiohttp that derive from aiohttp.ClientError
AiohttpClientErrors == {"ClientResponseError", "ClientConnectionError"}

(* ------------------------- backend responses -------------------------- *)

\* One member of a decoded JSON object: absent, a number (any non-string
\* value) or a string.
Absent == [t |-> "absent", s |-> ""]
Num == [t |-> "num", s |-> ""]
Str(x) == [t |-> "str", s |-> x]

\* The text a backend returns, as json.loads sees it: undecodable, or a JSON
\* value.  For an array or a string, keys says whether it contains both
\* "category" and "reasoning" (as elements, as substrings).
Payload(t, c, r, f, keys) ==
    [t |-> t, category |-> c, reasoning |-> r, confidence |-> f, keys |-> keys]

EmptyObject == Payload("object", Absent, Absent, Absent, FALSE)

CatFields == {Absent, Num, Str(""), Str("food"), Str("misc")}
ReasonFields == {Absent, Num, Str(""), Str("why")}
ConfFields == {Absent, Num, Str("high")}

Objects ==
    {o \in {Payload("object", c, r, f, FALSE) :
                c \in CatFields, r \in ReasonFields, f \in ConfFields} :
        o.confidence = Absent \/ (o.category.t = "str" /\ o.reasoning.t = "str")}

NonObjects ==
    {Payload(t, Absent, Absent, Absent, k) : t \in {"array", "string"}, k \in BOOLEAN}
        \cup {Payload(t, Absent, Absent, Absent, FALSE) : t \in {"number", "null"}}

Undecodable == Payload("undecodable", Absent, Absent, Absent, FALSE)

Payloads == Objects \cup NonObjects \cup {Undecodable}

\* What the provider request returns: env is the shape of the envelope around
\* the text (Ollama: the "response" member is a string, absent, or no string;
\* OpenAI: choices empty, message None, content None; Gemini: no text part).
Response(env, body) == [env |-> env, body |-> body]

NoResponse == Response("none", EmptyObject)

Envelopes(p) ==
    CASE p = "ollama" -> {"absent", "nonstr"}
      [] p = "openai" -> {"noChoices", "noMessage", "contentNone"}
      [] p = "gemini" -> {"noText"}

Responses(p) ==
    {Response("text", b) : b \in Payloads}
        \cup {Response(e, EmptyObject) : e \in Envelopes(p)}

\* A ClassificationResult (processing_time_ms left out: time is not modelled)
Result(c, r, f, used, cid, model) ==
    [category |-> c, reasoning |-> r, confidence |-> f, search_used |-> used,
     correlation_id |-> cid, model_used |-> model]

NoResult == Result(Absent, Absent, Absent, FALSE, "", "")

(* ------------------------- response parsing --------------------------- *)

\* BaseLLMClient._validate_response_schema: the exception it raises, or NoExc.
\* `k in response_data` is key membership on an object, element membership on
\* an array, substring on a string and a TypeError on a number or null;
\* response_data["category"] on an array or a string is a TypeError.
\* (variant: the type check of category and reasoning left out)
ValidateResponseSchemaNoTypes(d, model) ==
    IF d.t \in {"number", "null"} THEN Exc("TypeError", "", "", "", 0)
    ELSE IF ~ (IF d.t = "object"
               THEN d.category.t # "absent" /\ d.reasoning.t # "absent"
               ELSE d.keys)
    THEN Exc("LLMClientError", "", model, "", 0)
    ELSE IF d.t # "object" THEN Exc("TypeError", "", "", "", 0)
    ELSE NoExc

ValidateResponseSchema(d, model) ==
    IF d.t \in {"number", "null"} THEN Exc("TypeError", "", "", "", 0)
    ELSE IF ~ (IF d.t = "object"
               THEN d.category.t # "absent" /\ d.reasoning.t # "absent"
               ELSE d.keys)
    THEN Exc("LLMClientError", "", model, "", 0)
    ELSE IF d.t # "object" THEN Exc("TypeError", "", "", "", 0)
    ELSE IF d.category.t # "str" \/ d.reasoning.t # "str"
    THEN Exc("LLMClientError", "", model, "", 0)
    ELSE NoExc

\* ClassificationResult(category=..., reasoning=..., confidence=...): pydantic
\* rejects a category or reasoning that is no string and a confidence that is
\* no number (Optional[float]) with its ValidationError.
MakeResult(d, used) ==
    IF d.category.t # "str" \/ d.reasoning.t # "str" \/ d.confidence.t = "str"
    THEN [exc |-> Exc("ValidationError", "", "", "", 0), result |-> NoResult]
    ELSE [exc |-> NoExc,
          result |-> Result(d.category, d.reasoning, d.confidence, used, "", "")]

\* The body of the try block of the three _parse_response methods once the
\* text is at hand: json.loads, _validate_response_schema, the result.
ParseText(d, model, used) ==
    IF d.t = "undecodable"
    THEN [exc |-> Exc("JSONDecodeError", "", "", "", 0), result |-> NoResult]
    ELSE LET v == ValidateResponseSchema(d, model)
         IN IF v # NoExc THEN [exc |-> v, result |-> NoResult]
            ELSE MakeResult(d, used)

\* (variant: json.JSONDecodeError missing from the except clauses)
ParseCaughtNoJson(p) ==
    CASE p = "ollama" -> {"KeyError"}
      [] p = "openai" -> {"KeyError", "IndexError", "AttributeError"}
      [] p = "gemini" -> {"KeyError", "AttributeError"}

\* The exception classes each _parse_response catches and turns into
\* LLMParseError.
ParseCaught(p) ==
    CASE p = "ollama" -> {"JSONDecodeError", "KeyError"}
      [] p = "openai" -> {"JSONDecodeError", "KeyError", "IndexError", "AttributeError"}
      [] p = "gemini" -> {"JSONDecodeError", "KeyError", "AttributeError"}

\* What the try block of _parse_response raises or returns, per envelope.
ParseTry(p, resp, used) ==
    CASE resp.env = "text" -> ParseText(resp.body, ModelName(p), used)
      [] resp.env = "absent" -> ParseText(EmptyObject, ModelName(p), used)
      [] resp.env = "nonstr" ->
            [exc |-> Exc("TypeError", "", "", "", 0), result |-> NoResult]
      [] resp.env = "noChoices" ->
            [exc |-> Exc("IndexError", "", "", "", 0), result |-> NoResult]
      [] resp.env = "noMessage" ->
            [exc |-> Exc("AttributeError", "", "", "", 0), result |-> NoResult]
      [] resp.env = "contentNone" ->
            [exc |-> Exc("TypeError", "", "", "", 0), result |-> NoResult]
      [] resp.env = "noText" ->
            [exc |-> Exc("ValueError", "", "", "", 0), result |-> NoResult]

\* _parse_response of the three clients.  The OpenAI handler evaluates
\* response.choices[0] again while it builds the message of the LLMParseError,
\* so with an empty choices list the handler itself raises IndexError.
ParseResponse(p, resp, cid, used) ==
    LET r == ParseTry(p, resp, used)
    IN IF r.exc.kind \in ParseCaught(p)
       THEN IF p = "openai" /\ resp.env = "noChoices"
            THEN [exc |-> Exc("IndexError", "", "", "", 0), result |-> NoResult]
            ELSE [exc |-> Exc("LLMParseError", cid, ModelName(p), r.exc.kind, 0),
                  result |-> NoResult]
       ELSE r

(* --------------------------- input validation ------------------------- *)

RECURSIVE LStrip(_), RStrip(_)
LStrip(s) ==
    IF s = <<>> THEN s ELSE IF Head(s) = " " THEN LStrip(Tail(s)) ELSE s
RStrip(s) ==
    IF s = <<>> THEN s
    ELSE IF s[Len(s)] = " " THEN RStrip(SubSeq(s, 1, Len(s) - 1)) ELSE s

\* str.strip()
Strip(s) == RStrip(LStrip(s))

\* (variant: only `not payment_text`, the strip() test left out)
ValidateInputsNoStrip(text, cats) ==
    IF Len(text) = 0 THEN "payment_text cannot be empty"
    ELSE IF Len(cats) = 0 THEN "categories list cannot be empty"
    ELSE IF Len(cats) > MaxCategories THEN "Too many categories"
    ELSE IF Len(text) > MaxTextLen THEN "payment_text too long"
    ELSE ""

\* (variant: the category count not checked)
ValidateInputsNoCount(text, cats) ==
    IF Len(text) = 0 \/ Len(Strip(text)) = 0 THEN "payment_text cannot be empty"
    ELSE IF Len(cats) = 0 THEN "categories list cannot be empty"
    ELSE IF Len(text) > MaxTextLen THEN "payment_text too long"
    ELSE ""

\* (variant: >= for > in the length test)
ValidateInputsOffByOne(text, cats) ==
    IF Len(text) = 0 \/ Len(Strip(text)) = 0 THEN "payment_text cannot be empty"
    ELSE IF Len(cats) = 0 THEN "categories list cannot be empty"
    ELSE IF Len(cats) > MaxCategories THEN "Too many categories"
    ELSE IF Len(text) >= MaxTextLen THEN "payment_text too long"
    ELSE ""

\* BaseLLMClient._validate_inputs: the message of the LLMValidationError it
\* raises, "" when it returns.
ValidateInputs(text, cats) ==
    IF Len(text) = 0 \/ Len(Strip(text)) = 0 THEN "payment_text cannot be empty"
    ELSE IF Len(cats) = 0 THEN "categories list cannot be empty"
    ELSE IF Len(cats) > MaxCategories THEN "Too many categories"
    ELSE IF Len(text) > MaxTextLen THEN "payment_text too long"
    ELSE ""

(* ---------------------------- retry policies -------------------------- *)

\* (variant: every exception retried)
ShouldRetryAny(p, e) == TRUE

\* (variant: the OpenAI predicate without the server-error test)
ShouldRetryNoServerError(p, e) ==
    CASE p = "ollama" ->
            e.kind \in AiohttpClientErrors \cup {"LLMRateLimitError", "LLMTimeoutError"}
      [] p = "openai" ->
            e.kind \in {"APITimeoutError", "APIConnectionError", "RateLimitError"}
      [] p = "gemini" ->
            e.kind \in {"ResourceExhausted", "ServiceUnavailable", "InternalServerError"}

\* (variant: the Gemini predicate with DeadlineExceeded added)
ShouldRetryGeminiDeadline(p, e) ==
    CASE p = "ollama" ->
            e.kind \in AiohttpClientErrors \cup {"LLMRateLimitError", "LLMTimeoutError"}
      [] p = "openai" ->
            \/ e.kind \in {"APITimeoutError", "APIConnectionError", "RateLimitError"}
            \/ (e.kind = "APIStatusError" /\ e.status >= 500)
      [] p = "gemini" ->
            e.kind \in {"ResourceExhausted", "ServiceUnavailable", "InternalServerError",
                        "DeadlineExceeded"}

\* (variant: the Ollama predicate without the errors of raise_for_status)
ShouldRetryNoStatusError(p, e) ==
    CASE p = "ollama" ->
            e.kind \in (AiohttpClientErrors \ {"ClientResponseError"})
                          \cup {"LLMRateLimitError", "LLMTimeoutError"}
      [] p = "openai" ->
            \/ e.kind \in {"APITimeoutError", "APIConnectionError", "RateLimitError"}
            \/ (e.kind = "APIStatusError" /\ e.status >= 500)
      [] p = "gemini" ->
            e.kind \in {"ResourceExhausted", "ServiceUnavailable", "InternalServerError"}

\* retry=... of the tenacity decorator each client builds in __init__
ShouldRetry(p, e) ==
    CASE p = "ollama" ->
            e.kind \in AiohttpClientErrors \cup {"LLMRateLimitError", "LLMTimeoutError"}
      [] p = "openai" ->
            \/ e.kind \in {"APITimeoutError", "APIConnectionError", "RateLimitError"}
            \/ (e.kind = "APIStatusError" /\ e.status >= 500)
      [] p = "gemini" ->
            e.kind \in {"ResourceExhausted", "ServiceUnavailable", "InternalServerError"}

\* (variant: max_retries taken as retries after the first attempt)
StopAfterAttemptPlusOne(n) == n >= MaxRetries + 1

\* stop=stop_after_attempt(config.max_retries): no attempt after the n-th
StopAfterAttempt(n) == n >= MaxRetries

(* --------------------------- backend outcomes ------------------------- *)

\* How one backend call ends: the library raises exc (status: the status of a
\* status error), or an HTTP response with a status arrives (Ollama), or the
\* call returns resp.
Outcome(exc, status, resp) == [exc |-> exc, status |-> status, resp |-> resp]

Outcomes(p) ==
    CASE p = "ollama" ->
            {Outcome("", st, NoResponse) : st \in {404, 408, 429, 500, 504}}
                \cup {Outcome(k, 0, NoResponse) :
                        k \in {"ClientConnectionError", "TimeoutError", "JSONDecodeError"}}
                \cup {Outcome("", 200, r) : r \in Responses("ollama")}
      [] p = "openai" ->
            {Outcome(k, 0, NoResponse) : k \in {"APITimeoutError", "APIConnectionError"}}
                \cup {Outcome("RateLimitError", 429, NoResponse)}
                \cup {Outcome("APIStatusError", st, NoResponse) : st \in {400, 500}}
                \cup {Outcome("", 200, r) : r \in Responses("openai")}
      [] p = "gemini" ->
            {Outcome(k, 0, NoResponse) :
                k \in {"ResourceExhausted", "ServiceUnavailable", "InternalServerError",
                       "DeadlineExceeded", "InvalidArgument",
                       "BlockedPromptException", "StopCandidateException"}}
                \cup {Outcome("", 200, r) : r \in Responses("gemini")}

\* (variant: status 504 left to raise_for_status)
AttemptRaisesNo504(p, cid, out) ==
    CASE p = "ollama" ->
            IF out.exc # "" THEN Exc(out.exc, "", "", "", 0)
            ELSE IF out.status = 429
            THEN Exc("LLMRateLimitError", cid, ModelName(p), "", 0)
            ELSE IF out.status = 408
            THEN Exc("LLMTimeoutError", cid, ModelName(p), "", 0)
            ELSE IF out.status >= 400
            THEN Exc("ClientResponseError", "", "", "", out.status)
            ELSE NoExc
      [] p = "openai" ->
            IF out.exc # "" THEN Exc(out.exc, "", "", "", out.status) ELSE NoExc
      [] p = "gemini" ->
            IF out.exc \in {"BlockedPromptException", "StopCandidateException"}
            THEN Exc("LLMClientError", cid, ModelName(p), out.exc, 0)
            ELSE IF out.exc # "" THEN Exc(out.exc, "", "", "", 0)
            ELSE NoExc

\* The exception _make_classification_request_impl raises for an outcome
\* (NoExc when it returns the response).  Ollama maps 429 and 408/504 to the
\* taxonomy and lets raise_for_status raise for every other status >= 400;
\* Gemini turns the two content-safety exceptions into LLMClientError.
AttemptRaises(p, cid, out) ==
    CASE p = "ollama" ->
            IF out.exc # "" THEN Exc(out.exc, "", "", "", 0)
            ELSE IF out.status = 429
            THEN Exc("LLMRateLimitError", cid, ModelName(p), "", 0)
            ELSE IF out.status \in {408, 504}
            THEN Exc("LLMTimeoutError", cid, ModelName(p), "", 0)
            ELSE IF out.status >= 400
            THEN Exc("ClientResponseError", "", "", "", out.status)
            ELSE NoExc
      [] p = "openai" ->
            IF out.exc # "" THEN Exc(out.exc, "", "", "", out.status) ELSE NoExc
      [] p = "gemini" ->
            IF out.exc \in {"BlockedPromptException", "StopCandidateException"}
            THEN Exc("LLMClientError", cid, ModelName(p), out.exc, 0)
            ELSE IF out.exc # "" THEN Exc(out.exc, "", "", "", 0)
            ELSE NoExc

(* ------------------------------- calls -------------------------------- *)

\* The backend's throttling signal: HTTP 429 from Ollama, RateLimitError of
\* the OpenAI SDK (HTTP 429), ResourceExhausted of the Google API.
Throttled(out) == out.status = 429 \/ out.exc \in {"RateLimitError", "ResourceExhausted"}

\* One classify call.  pc: idle, waiting (suspended on the semaphore),
\* searching and requesting (suspended on the network inside an attempt),
\* backoff (suspended in tenacity's sleep), done.  attempts counts the
\* invocations of _make_classification_request_impl, searches those of the
\* search collaborator; found is how the search of the current attempt ended
\* (results, empty, raised), enriched whether its results are in the prompt
\* and prompt the key of the user prompt sent; last is what the latest
\* failed attempt raised and status the HTTP status of the response of the
\* current attempt (0: none); throttles counts the attempts that met the
\* backend's throttling signal;
\* timeouts counts the attempts that raised LLMTimeoutError; resp is the
\* response handed to _parse_response; raised is the exception caught by the
\* except branch of classify and exc the one that leaves the call; metrics
\* are the records made by _record_metrics.
IdleCall ==
    [pc |-> "idle", text |-> <<>>, cats |-> <<>>, use_search |-> FALSE,
     provider |-> "ollama", cid_in |-> "", cid |-> "", attempts |-> 0,
     searches |-> 0, found |-> "", enriched |-> FALSE, prompt |-> "",
     last |-> NoExc, status |-> 0, timeouts |-> 0, throttles |-> 0,
     resp |-> NoResponse, result |-> NoResult, raised |-> NoExc, exc |-> NoExc,
     metrics |-> <<>>]

\* (variant: the caught exception re-raised as it is, never wrapped)
FailNoWrap(cl, e) ==
    [cl EXCEPT !.pc = "done", !.raised = e, !.exc = e,
               !.metrics = Append(@, [success |-> FALSE, error_type |-> e.kind])]

\* The except branch of classify: error_type, metrics, and the exception
\* that leaves the call (a taxonomy exception as it is, any other wrapped in
\* an LLMClientError with the call's correlation id and the model name).
Fail(cl, e) ==
    LET known == IsKnownError(e)
        error_type == IF known THEN e.kind ELSE "UnexpectedError"
    IN [cl EXCEPT !.pc = "done", !.raised = e,
                  !.exc = IF known THEN e
                          ELSE Exc("LLMClientError", cl.cid, ModelName(cl.provider),
                                   e.kind, 0),
                  !.metrics = Append(@, [success |-> FALSE, error_type |-> error_type])]

\* (variant: the result returned as parsed, model_used not stamped)
SucceedNoModel(cl, res) ==
    [cl EXCEPT !.pc = "done",
               !.result = [res EXCEPT !.correlation_id = cl.cid],
               !.metrics = Append(@, [success |-> TRUE, error_type |-> ""])]

\* (variant: a success leaves no metrics record)
SucceedNoMetrics(cl, res) ==
    [cl EXCEPT !.pc = "done",
               !.result = [res EXCEPT !.correlation_id = cl.cid,
                                      !.model_used = ModelName(cl.provider)]]

\* The end of the try branch of classify: the result is stamped with the
\* correlation id and the model name, the success is recorded.
Succeed(cl, res) ==
    [cl EXCEPT !.pc = "done",
               !.result = [res EXCEPT !.correlation_id = cl.cid,
                                      !.model_used = ModelName(cl.provider)],
               !.metrics = Append(@, [success |-> TRUE, error_type |-> ""])]

\* (variant: the stop condition never holds; a retried exception always
\* leads to another attempt, the count kept within its bound)
AfterFailureNeverStops(cl, e) ==
    IF ShouldRetry(cl.provider, e)
    THEN [cl EXCEPT !.pc = "backoff", !.last = e,
                    !.attempts = IF @ >= MaxRetries THEN MaxRetries - 1 ELSE @]
    ELSE Fail([cl EXCEPT !.last = e], e)

\* tenacity after a failed attempt: sleep and try again when the retry
\* predicate accepts the exception and the stop condition does not hold,
\* otherwise (reraise=True) the exception leaves the retry wrapper.
AfterFailure(cl, e) ==
    IF ShouldRetry(cl.provider, e) /\ ~ StopAfterAttempt(cl.attempts)
    THEN [cl EXCEPT !.pc = "backoff", !.last = e]
    ELSE Fail([cl EXCEPT !.last = e], e)

\* The request itself (session.post, chat.completions.create,
\* generate_content_async): a closed aiohttp session raises RuntimeError
\* before anything is sent.
SendRequest(cl0, sess) ==
    LET cl == [cl0 EXCEPT !.prompt = IF cl0.enriched
                                     THEN "classify_user_prompt_with_search"
                                     ELSE "classify_user_prompt"]
    IN IF cl.provider = "ollama" /\ sess = "closed"
       THEN AfterFailure(cl, Exc("RuntimeError", "", "", "", 0))
       ELSE [cl EXCEPT !.pc = "requesting"]

\* The headers of the provider request of a call: session.post of the Ollama
\* client passes X-Correlation-ID; generate_content_async and
\* chat.completions.create are given no header.
RequestHeaders(cl) ==
    IF cl.provider = "ollama"
    THEN [h \in {"X-Correlation-ID"} |-> cl.cid]
    ELSE [h \in {} |-> ""]

\* (variant: an exception of the search collaborator ends the attempt)
AfterSearchPropagates(cl0, found, sess) ==
    LET cl == [cl0 EXCEPT !.searches = @ + 1, !.found = found,
                          !.enriched = (found = "results")]
    IN IF found = "raised"
       THEN AfterFailure(cl, Exc("SearchError", "", "", "", 0))
       ELSE SendRequest(cl, sess)

\* (variant: the prompt counts as enriched whenever the search was made)
AfterSearchAlwaysEnriched(cl0, found, sess) ==
    LET cl == [cl0 EXCEPT !.searches = @ + 1, !.found = found, !.enriched = TRUE]
    IN SendRequest(cl, sess)

\* The attempt after `await self._search_service.search(...)`: results are
\* joined into search_results_text, an empty list leaves it empty, an
\* exception is logged and swallowed; the prompt is chosen by
\* `use_search and search_results_text` and the request is sent.
AfterSearch(cl0, found, sess) ==
    LET cl == [cl0 EXCEPT !.searches = @ + 1, !.found = found,
                          !.enriched = (found = "results")]
    IN SendRequest(cl, sess)

\* (variant: the search made in the first attempt only)
BeginAttemptSearchOnce(cl0, sess, search) ==
    LET cl == [cl0 EXCEPT !.attempts = @ + 1, !.prompt = "", !.status = 0]
    IN IF cl.provider = "ollama" /\ sess = "none"
       THEN AfterFailure(cl, Exc("LLMClientError", cl.cid, ModelName("ollama"), "", 0))
       ELSE IF cl.provider = "ollama" /\ cl.use_search /\ search /\ cl.attempts = 1
       THEN [cl EXCEPT !.pc = "searching"]
       ELSE SendRequest(cl, sess)

\* The start of one attempt (_make_classification_request_impl up to its
\* first await).
BeginAttempt(cl0, sess, search) ==
    LET cl == [cl0 EXCEPT !.attempts = @ + 1, !.found = "", !.enriched = FALSE,
                          !.prompt = "", !.status = 0]
    IN IF cl.provider = "ollama" /\ sess = "none"
       THEN AfterFailure(cl, Exc("LLMClientError", cl.cid, ModelName("ollama"), "", 0))
       ELSE IF cl.provider = "ollama" /\ cl.use_search /\ search
       THEN [cl EXCEPT !.pc = "searching"]
       ELSE SendRequest(cl, sess)

\* classify from the acquired semaphore to its first await
AfterAdmit(cl, sess, search) ==
    IF ValidateInputs(cl.text, cl.cats) # ""
    THEN Fail(cl, Exc("LLMValidationError", "", "", "", 0))
    ELSE BeginAttempt(cl, sess, search)

\* (variant: a category outside the request's list is refused)
AfterResponseMembership(cl, resp) ==
    LET r == ParseResponse(cl.provider, resp, cl.cid, cl.enriched)
        cl1 == [cl EXCEPT !.resp = resp]
    IN IF r.exc # NoExc THEN Fail(cl1, r.exc)
       ELSE IF \A i \in DOMAIN cl.cats : cl.cats[i] # r.result.category.s
       THEN Fail(cl1, Exc("LLMClientError", "", ModelName(cl.provider), "", 0))
       ELSE Succeed(cl1, r.result)

\* classify after the request returned: parse, stamp, record
AfterResponse(cl, resp) ==
    LET r == ParseResponse(cl.provider, resp, cl.cid, cl.enriched)
        cl1 == [cl EXCEPT !.resp = resp]
    IN IF r.exc # NoExc THEN Fail(cl1, r.exc) ELSE Succeed(cl1, r.result)

\* (variant: no admission control)
SlotFreeAlways(p) == TRUE

\* (variant: one bound shared by every client instance)
SlotFreeGlobal(p) == \A q \in DOMAIN sem : sem[q] > 0

\* asyncio.Semaphore: a slot is free
SlotFree(p) == sem[p] > 0

\* Semaphore.acquire and Semaphore.release (`async with self._semaphore`)
Acquire(p, s) == [s EXCEPT ![p] = @ - 1]
Release(p, s) == [s EXCEPT ![p] = @ + 1]

\* (variant: the slot given back as well while tenacity sleeps)
SemAfterStepBackoffFrees(cl2, s) ==
    IF cl2.pc \in {"done", "backoff"} THEN Release(cl2.provider, s) ELSE s

\* (variant: the slot is given back only when the call returns a result)
SemAfterStepLeaksOnError(cl2, s) ==
    IF cl2.pc = "done" /\ cl2.exc = NoExc THEN Release(cl2.provider, s) ELSE s

\* The semaphore after a step of a call that holds a slot: the slot is given
\* back when the step takes the call out of the `async with` block.
SemAfterStep(cl2, s) == IF cl2.pc = "done" THEN Release(cl2.provider, s) ELSE s

(* ------------------------------ actions ------------------------------- *)

\* A caller invokes client.classify(text, cats, cid_in, use_search): the
\* correlation id is settled (`correlation_id or str(uuid.uuid4())`) and the
\* call reaches `async with self._semaphore`.
Classify(c, texts, catlists, flags, provs, cids) ==
    /\ calls[c].pc = "idle"
    /\ \E text \in texts, cats \in catlists, use_search \in flags,
          p \in provs, cid_in \in cids :
          calls' = [calls EXCEPT ![c] =
                      [IdleCall EXCEPT !.pc = "waiting", !.text = text, !.cats = cats,
                                       !.use_search = use_search, !.provider = p,
                                       !.cid_in = cid_in,
                                       !.cid = IF cid_in # "" THEN cid_in
                                               ELSE "uuid-" \o ToString(c)]]
    /\ UNCHANGED <<sem, session, search_service, cachevars, searchvars, appvars>>

\* The semaphore admits the call, which runs to its first await: validation,
\* then the start of the first attempt.
Admit(c) ==
    /\ calls[c].pc = "waiting"
    /\ SlotFree(calls[c].provider)
    /\ LET cl2 == AfterAdmit(calls[c], session, search_service)
       IN /\ calls' = [calls EXCEPT ![c] = cl2]
          /\ sem' = SemAfterStep(cl2, Acquire(cl2.provider, sem))
    /\ UNCHANGED <<session, search_service, cachevars, searchvars, appvars>>

\* The search collaborator returns to the Ollama attempt: results, an empty
\* list, or an exception (logged and swallowed); then the request is sent.
SearchReturns(c) ==
    /\ calls[c].pc = "searching"
    /\ \E found \in {"results", "empty", "raised"} :
          LET cl2 == AfterSearch(calls[c], found, session)
          IN /\ calls' = [calls EXCEPT ![c] = cl2]
             /\ sem' = SemAfterStep(cl2, sem)
    /\ UNCHANGED <<session, search_service, cachevars, searchvars, appvars>>

\* The backend call of an attempt ends: a failure goes to the retry policy,
\* a response to _parse_response and the end of classify.
AttemptReturns(c, outs) ==
    /\ calls[c].pc = "requesting"
    /\ \E out \in outs :
          LET cl == calls[c]
              e == AttemptRaises(cl.provider, cl.cid, out)
              cl1 == [cl EXCEPT !.timeouts =
                                   IF e.kind = "LLMTimeoutError" THEN @ + 1 ELSE @,
                                !.throttles = IF Throttled(out) THEN @ + 1 ELSE @,
                                !.status = out.status]
              cl2 == IF e # NoExc THEN AfterFailure(cl1, e)
                     ELSE AfterResponse(cl1, out.resp)
          IN /\ out \in Outcomes(cl.provider)
             /\ calls' = [calls EXCEPT ![c] = cl2]
             /\ sem' = SemAfterStep(cl2, sem)
    /\ UNCHANGED <<session, search_service, cachevars, searchvars, appvars>>

\* tenacity's sleep ends and the next attempt starts.
RetryWake(c) ==
    /\ calls[c].pc = "backoff"
    /\ LET cl2 == BeginAttempt(calls[c], session, search_service)
       IN /\ calls' = [calls EXCEPT ![c] = cl2]
          /\ sem' = SemAfterStep(cl2, sem)
    /\ UNCHANGED <<session, search_service, cachevars, searchvars, appvars>>

\* The caller has its result or exception and may call again.
Return(c) ==
    /\ calls[c].pc = "done"
    /\ calls' = [calls EXCEPT ![c] = IdleCall]
    /\ UNCHANGED <<sem, session, search_service, cachevars, searchvars, appvars>>

\* OllamaClient._setup (__aenter__): a new aiohttp session
Setup ==
    /\ session # "open"
    /\ session' = "open"
    /\ UNCHANGED <<calls, sem, search_service, cachevars, searchvars, appvars>>

\* OllamaClient._cleanup (__aexit__): the session is closed if it is open
Cleanup ==
    /\ session = "open"
    /\ session' = "closed"
    /\ UNCHANGED <<calls, sem, search_service, cachevars, searchvars, appvars>>

(* --------------------------- client caches ---------------------------- *)

\* The cache keys: (model type or provider type, model name).
CacheKeys == {<<"local", "llama3">>, <<"local", "mistral">>, <<"cloud", "gemini-pro">>}

\* The two caches: the dict of the /classify route (app.state.llm_clients)
\* and the dict of the client manager.
Caches == {"route", "manager"}

\* An entry of a cache is the number of the client object it holds: the n-th
\* client constructed for that key (0: no entry).
EmptyCache == [k \in CacheKeys |-> 0]

\* One lookup.  pc: idle, locking (suspended on the manager's lock),
\* creating (suspended in the factory, the lock held), done.  first tells
\* that the key had no entry when the lookup was called; got is the client
\* returned, failed tells that the construction raised.
IdleLookup ==
    [pc |-> "idle", via |-> "route", key |-> <<"local", "llama3">>,
     first |-> FALSE, got |-> 0, failed |-> FALSE]

\* (variant: a client constructed at every lookup)
CacheMissAlways(cache, key) == TRUE

\* `if cache_key not in clients_cache`
CacheMiss(cache, key) == cache[key] = 0

\* create_llm_client: the local client is always constructed, the cloud
\* client raises where no API key is configured.
CanFail(key) == IF key[1] = "cloud" THEN {TRUE, FALSE} ELSE {TRUE}

\* get_cached_client, called by the /classify route: check, construct and
\* insert without an await in between.
GetCachedClient(l) ==
    /\ lookups[l].pc = "idle"
    /\ \E key \in CacheKeys :
       \E ok \in CanFail(key) :
          LET miss == CacheMiss(llm_clients, key)
              n == constructed["route"][key] + 1
              lk == [IdleLookup EXCEPT !.pc = "done", !.via = "route", !.key = key,
                                       !.first = (llm_clients[key] = 0)]
          IN IF miss /\ ~ ok
             THEN /\ lookups' = [lookups EXCEPT ![l] = [lk EXCEPT !.failed = TRUE]]
                  /\ UNCHANGED <<llm_clients, constructed>>
             ELSE IF miss
             THEN /\ llm_clients' = [llm_clients EXCEPT ![key] = n]
                  /\ constructed' = [constructed EXCEPT !["route"][key] = n]
                  /\ lookups' = [lookups EXCEPT ![l] = [lk EXCEPT !.got = n]]
             ELSE /\ lookups' = [lookups EXCEPT ![l] = [lk EXCEPT !.got = llm_clients[key]]]
                  /\ UNCHANGED <<llm_clients, constructed>>
    /\ UNCHANGED <<manager, clientvars, searchvars, appvars>>

\* LLMClientManager.get_client is called and reaches its lock.
GetClient(l) ==
    /\ lookups[l].pc = "idle"
    /\ \E key \in CacheKeys :
          lookups' = [lookups EXCEPT ![l] =
                        [IdleLookup EXCEPT !.pc = "locking", !.via = "manager",
                                           !.key = key,
                                           !.first = (manager.clients[key] = 0)]]
    /\ UNCHANGED <<llm_clients, manager, constructed, clientvars, searchvars, appvars>>

\* The lock is taken and the cache is checked: a hit is returned and the
\* lock released, a miss goes to the factory with the lock held.
LockAcquired(l) ==
    /\ lookups[l].pc = "locking"
    /\ manager.lock = 0
    /\ IF CacheMiss(manager.clients, lookups[l].key)
       THEN /\ lookups' = [lookups EXCEPT ![l].pc = "creating"]
            /\ manager' = [manager EXCEPT !.lock = l]
       ELSE /\ lookups' = [lookups EXCEPT ![l].pc = "done",
                                          ![l].got = manager.clients[lookups[l].key]]
            /\ UNCHANGED manager
    /\ UNCHANGED <<llm_clients, constructed, clientvars, searchvars, appvars>>

\* The factory returns the new client, set up, or raises; the client is
\* inserted and the lock released.
CreateReturns(l) ==
    /\ lookups[l].pc = "creating"
    /\ \E ok \in BOOLEAN :
          LET key == lookups[l].key
              n == constructed["manager"][key] + 1
          IN IF ok
             THEN /\ manager' = [manager EXCEPT !.clients[key] = n, !.lock = 0]
                  /\ constructed' = [constructed EXCEPT !["manager"][key] = n]
                  /\ lookups' = [lookups EXCEPT ![l].pc = "done", ![l].got = n]
             ELSE /\ manager' = [manager EXCEPT !.lock = 0]
                  /\ lookups' = [lookups EXCEPT ![l].pc = "done", ![l].failed = TRUE]
                  /\ UNCHANGED constructed
    /\ UNCHANGED <<llm_clients, clientvars, searchvars, appvars>>

\* The caller of a lookup has its client or its exception.
LookupReturn(l) ==
    /\ lookups[l].pc = "done"
    /\ lookups' = [lookups EXCEPT ![l] = IdleLookup]
    /\ UNCHANGED <<llm_clients, manager, constructed, clientvars, searchvars, appvars>>

\* The caches as the application starts: empty, the lock free.
CacheStart ==
    /\ llm_clients = EmptyCache
    /\ manager = [clients |-> EmptyCache, lock |-> 0]
    /\ constructed = [m \in Caches |-> EmptyCache]
    /\ lookups = [l \in Lookers |-> IdleLookup]

(* ------------------------- Google search service ---------------------- *)

\* One call of GoogleSearchService.search.  pc: idle, requesting (suspended
\* in session.get inside an attempt), backoff (tenacity's sleep), done.
\* at_call is the state of the session when search was called; attempts
\* counts the invocations of _search_impl and requests the HTTP requests
\* issued; last is what the current attempt raised; returned tells that a
\* list came back, of length items; raised is the exception that left
\* search.
IdleSearch ==
    [pc |-> "idle", query |-> <<>>, at_call |-> "none", attempts |-> 0,
     requests |-> 0, last |-> "", returned |-> FALSE, items |-> 0, raised |-> ""]

\* What one GET of the Custom Search API comes to: an exception of the
\* transport, an error status, or a 200 whose body does not decode, or
\* decodes to an object with so many items (none: no "items" member).
GsOutcome(exc, status, items) == [exc |-> exc, status |-> status, items |-> items]

GsOutcomes ==
    {GsOutcome(e, 0, 0) : e \in {"ClientConnectionError", "TimeoutError"}}
        \cup {GsOutcome("", s, 0) : s \in {403, 408, 429, 500, 504}}
        \cup {GsOutcome(e, 200, 0) : e \in {"ContentTypeError", "JSONDecodeError"}}
        \cup {GsOutcome("", 200, n) : n \in 0..2}

\* What _search_impl raises on an outcome ("": it returns the list).
SearchRaises(out) ==
    IF out.exc # "" THEN out.exc
    ELSE IF out.status = 429 THEN "ClientError"
    ELSE IF out.status \in {408, 504} THEN "TimeoutError"
    ELSE IF out.status >= 400 THEN "ClientResponseError"
    ELSE ""

\* (variant: every exception of an attempt is retried)
SearchShouldRetryAny(e) == TRUE

\* retry_if_exception_type((aiohttp.ClientError, asyncio.TimeoutError))
SearchShouldRetry(e) ==
    e \in {"ClientError", "ClientResponseError", "ClientConnectionError",
           "ContentTypeError", "TimeoutError"}

\* stop_after_attempt(max_retries) of the search service
SearchStopAfterAttempt(n) == n >= SearchMaxRetries

\* (variant: only the empty string is an empty query)
BlankQueryEmptyOnly(query) == query = <<>>

\* `not query or not query.strip()`
BlankQuery(query) == Strip(query) = <<>>

\* (variant: the public boundary catches the retried kinds only)
SearchCaughtRetriedOnly(e) == SearchShouldRetry(e)

\* `except Exception` around _search_with_retry
SearchCaught(e) == TRUE

\* An exception leaves the retry wrapper and reaches the boundary of search.
SearchFails(sc, e) ==
    IF SearchCaught(e)
    THEN [sc EXCEPT !.pc = "done", !.last = e, !.returned = TRUE, !.items = 0]
    ELSE [sc EXCEPT !.pc = "done", !.last = e, !.raised = e]

\* tenacity after a failed attempt of _search_impl
SearchAfterFailure(sc, e) ==
    IF SearchShouldRetry(e) /\ ~ SearchStopAfterAttempt(sc.attempts)
    THEN [sc EXCEPT !.pc = "backoff", !.last = e]
    ELSE SearchFails(sc, e)

\* The start of one attempt (_search_impl up to session.get): no session
\* raises LLMClientError, a closed session raises RuntimeError in get.
SearchBeginAttempt(sc0, sess) ==
    LET sc == [sc0 EXCEPT !.attempts = @ + 1, !.last = ""]
    IN IF sess = "none" THEN SearchAfterFailure(sc, "LLMClientError")
       ELSE IF sess = "closed" THEN SearchAfterFailure(sc, "RuntimeError")
       ELSE [sc EXCEPT !.pc = "requesting", !.requests = @ + 1]

\* search is called: an empty query returns [] at once, a service without
\* a session raises LLMClientError (outside the try), otherwise the first
\* attempt starts.
Search(queries) ==
    /\ gs_call.pc = "idle"
    /\ \E query \in queries :
          LET sc == [IdleSearch EXCEPT !.query = query, !.at_call = gs_session]
          IN gs_call' =
                IF BlankQuery(query)
                THEN [sc EXCEPT !.pc = "done", !.returned = TRUE]
                ELSE IF gs_session = "none"
                THEN [sc EXCEPT !.pc = "done", !.raised = "LLMClientError"]
                ELSE SearchBeginAttempt(sc, gs_session)
    /\ UNCHANGED <<gs_session, clientvars, cachevars, appvars>>

\* The GET of an attempt ends.
SearchAttemptReturns ==
    /\ gs_call.pc = "requesting"
    /\ \E out \in GsOutcomes :
          LET e == SearchRaises(out)
          IN gs_call' =
                IF e # "" THEN SearchAfterFailure(gs_call, e)
                ELSE [gs_call EXCEPT !.pc = "done", !.returned = TRUE,
                                     !.items = out.items]
    /\ UNCHANGED <<gs_session, clientvars, cachevars, appvars>>

\* tenacity's sleep ends and the next attempt starts.
SearchRetryWake ==
    /\ gs_call.pc = "backoff"
    /\ gs_call' = SearchBeginAttempt(gs_call, gs_session)
    /\ UNCHANGED <<gs_session, clientvars, cachevars, appvars>>

\* The caller of search has its list or its exception.
SearchReturn ==
    /\ gs_call.pc = "done"
    /\ gs_call' = IdleSearch
    /\ UNCHANGED <<gs_session, clientvars, cachevars, appvars>>

\* GoogleSearchService._setup (__aenter__): a new aiohttp session
SearchSetup ==
    /\ gs_session # "open"
    /\ gs_session' = "open"
    /\ UNCHANGED <<gs_call, clientvars, cachevars, appvars>>

\* GoogleSearchService._cleanup (__aexit__): the session is closed if open
SearchCleanup ==
    /\ gs_session = "open"
    /\ gs_session' = "closed"
    /\ UNCHANGED <<gs_call, clientvars, cachevars, appvars>>

\* The search service as constructed: no session, no call.
SearchStart ==
    /\ gs_session = "none"
    /\ gs_call = IdleSearch

(* ----------------------- endpoint and lifespan ----------------------- *)

\* Category labels as a client may send them: characters with case and
\* surrounding whitespace.
RequestLabels ==
    {<<>>, <<" ">>, <<"a">>, <<"A">>, <<" ", "a">>, <<"b">>, <<"c">>, <<"d">>}

\* category lists up to one entry past the request's maximum
RequestCatLists == SeqsUpTo(RequestLabels, MaxRequestCategories + 1)

\* payment texts of a request: empty, whitespace, one character
RequestTexts == {<<>>, <<" ">>, <<"a">>}

\* str.lower()
Lower(s) == [i \in DOMAIN s |-> IF s[i] = "A" THEN "a" ELSE s[i]]

\* (variant: duplicates found by exact comparison)
CleanedCaseSensitive(v) ==
    LET RECURSIVE Go(_, _)
        Go(i, acc) ==
            IF i > Len(v) THEN acc
            ELSE LET clean_cat == Strip(v[i])
                 IN IF clean_cat # <<>> /\ \A j \in DOMAIN acc : acc[j] # clean_cat
                    THEN Go(i + 1, Append(acc, clean_cat))
                    ELSE Go(i + 1, acc)
    IN Go(1, <<>>)

\* The loop of validate_categories: each label stripped, kept when it is not
\* blank and its lower-case form has not been seen.
Cleaned(v) ==
    LET RECURSIVE Go(_, _)
        Go(i, acc) ==
            IF i > Len(v) THEN acc
            ELSE LET clean_cat == Strip(v[i])
                 IN IF clean_cat # <<>>
                       /\ \A j \in DOMAIN acc : Lower(acc[j]) # Lower(clean_cat)
                    THEN Go(i + 1, Append(acc, clean_cat))
                    ELSE Go(i + 1, acc)
    IN Go(1, <<>>)

\* (variant: the maximum applied to the list as sent)
ValidateCategoriesRawCount(v) ==
    IF Len(v) = 0 THEN "Categories list cannot be empty"
    ELSE IF Len(Cleaned(v)) = 0 THEN "At least one valid category must be provided"
    ELSE IF Len(v) > MaxRequestCategories THEN "Maximum categories allowed"
    ELSE ""

\* ClassificationRequest.validate_categories (after Field(min_length=1)):
\* the message of its ValueError, "" when it returns Cleaned(v).
ValidateCategories(v) ==
    IF Len(v) = 0 THEN "Categories list cannot be empty"
    ELSE IF Len(Cleaned(v)) = 0 THEN "At least one valid category must be provided"
    ELSE IF Len(Cleaned(v)) > MaxRequestCategories THEN "Maximum categories allowed"
    ELSE ""

\* (variant: use_search accepted for every model type)
ValidateSearchOptionsNone(use_search, model_type) == ""

\* ClassificationRequest.validate_search_options
ValidateSearchOptions(use_search, model_type) ==
    IF use_search /\ model_type = "cloud"
    THEN "use_search is not supported for cloud models"
    ELSE ""

\* The construction of a ClassificationRequest: the first validation error,
\* "" when the request is accepted (model_name is taken as valid).
ValidateRequest(text, raw, model_type, use_search) ==
    IF Len(text) < 1 THEN "payment_text: min_length"
    ELSE IF ValidateCategories(raw) # "" THEN ValidateCategories(raw)
    ELSE ValidateSearchOptions(use_search, model_type)

\* ClassificationService.classify: the arguments handed to
\* llm_client_manager.classify
ServiceArgs(text, cats, model_type, use_search) ==
    [provider_type |-> IF model_type = "local" THEN "ollama" ELSE "gemini",
     payment_text |-> text, categories |-> cats, use_search |-> use_search]

NoArgs == ServiceArgs(<<>>, <<>>, "local", FALSE)

\* What service.classify raises into the route besides LLMValidationError:
\* the taxonomy exceptions of classify, a ValueError, or any other exception.
ServiceRaises ==
    {"LLMTimeoutError", "LLMParseError", "LLMRateLimitError", "LLMClientError",
     "ValueError", "RuntimeError"}

\* isinstance(e, LLMClientError)
IsLLMClientError(kind) == kind \in Taxonomy

\* The except clauses of the route, in their order.
RouteStatus(kind) ==
    IF kind = "LLMTimeoutError" THEN 408
    ELSE IF kind = "LLMParseError" THEN 422
    ELSE IF IsLLMClientError(kind) THEN 503
    ELSE IF kind = "ValueError" THEN 400
    ELSE 500

\* One request to POST /api/v1/classify.  pc: idle, serving (suspended in
\* service.classify), done.  raw is the category list as sent, categories
\* the list of the constructed request; args are the arguments of
\* llm_client_manager.classify; raised is what service.classify raised and
\* status the HTTP status of the response.
IdleHttp ==
    [pc |-> "idle", payment_text |-> <<>>, raw |-> <<>>, model_type |-> "local",
     use_search |-> FALSE, accepted |-> FALSE, categories |-> <<>>,
     args |-> NoArgs, raised |-> "", status |-> 0]

\* A request arrives: FastAPI constructs the ClassificationRequest (422 when
\* that fails) and the route calls service.classify.
Post ==
    /\ http.pc = "idle"
    /\ \E text \in RequestTexts, raw \in RequestCatLists,
          model_type \in {"local", "cloud"}, use_search \in BOOLEAN :
          LET rq == [IdleHttp EXCEPT !.payment_text = text, !.raw = raw,
                                     !.model_type = model_type,
                                     !.use_search = use_search]
          IN http' =
                IF ValidateRequest(text, raw, model_type, use_search) # ""
                THEN [rq EXCEPT !.pc = "done", !.status = 422]
                ELSE [rq EXCEPT !.pc = "serving", !.accepted = TRUE,
                                !.categories = Cleaned(raw),
                                !.args = ServiceArgs(text, Cleaned(raw), model_type,
                                                     use_search)]
    /\ UNCHANGED <<life, clientvars, cachevars, searchvars>>

\* service.classify ends: classify's input validation decides on
\* LLMValidationError, otherwise a classification comes back or one of the
\* other exceptions is raised; the route answers.
ServiceReturns ==
    /\ http.pc = "serving"
    /\ \E out \in {"result"} \cup ServiceRaises :
          LET kind == IF ValidateInputs(http.args.payment_text, http.args.categories) # ""
                      THEN "LLMValidationError"
                      ELSE IF out = "result" THEN "" ELSE out
          IN http' = [http EXCEPT !.pc = "done", !.raised = kind,
                                  !.status = IF kind = "" THEN 200
                                             ELSE RouteStatus(kind)]
    /\ UNCHANGED <<life, clientvars, cachevars, searchvars>>

\* The response has been sent.
HttpReturn ==
    /\ http.pc = "done"
    /\ http' = IdleHttp
    /\ UNCHANGED <<life, clientvars, cachevars, searchvars>>

\* The application's lifespan.  pc: serving (the generator suspended at its
\* yield), closing (suspended in close_all), stopped; close_alls counts the
\* invocations of client_manager.close_all.
IdleLife == [pc |-> "serving", close_alls |-> 0]

\* The lookups of the manager made by the requests the application serves:
\* a request is taken while the lifespan is at its yield, and runs on until
\* the lifespan has ended.
ServeGetClient(l) == life.pc = "serving" /\ GetClient(l)
ServeLockAcquired(l) == life.pc # "stopped" /\ LockAcquired(l)
ServeCreateReturns(l) == life.pc # "stopped" /\ CreateReturns(l)
ServeLookupReturn(l) == life.pc # "stopped" /\ LookupReturn(l)

\* Normal shutdown: the lifespan is resumed after its yield and calls
\* client_manager.close_all, which reaches the manager's lock.
LifespanExit ==
    /\ life.pc = "serving"
    /\ life' = [life EXCEPT !.pc = "closing", !.close_alls = @ + 1]
    /\ UNCHANGED <<http, clientvars, cachevars, searchvars>>

\* close_all under the lock: the cleanup hook of every cached client is
\* invoked and the cache is emptied; the lifespan ends.
CloseAll ==
    /\ life.pc = "closing"
    /\ manager.lock = 0
    /\ manager' = [manager EXCEPT !.clients = EmptyCache]
    /\ life' = [life EXCEPT !.pc = "stopped"]
    /\ UNCHANGED <<http, llm_clients, constructed, lookups, clientvars, searchvars>>

\* Shutdown by an exception: asynccontextmanager throws the exception of the
\* `async with` body into the generator at its yield, which has no
\* try/finally, so the generator ends there.
LifespanRaise ==
    /\ life.pc = "serving"
    /\ life' = [life EXCEPT !.pc = "stopped"]
    /\ UNCHANGED <<http, clientvars, cachevars, searchvars>>

\* The application as started: no request, the lifespan at its yield.
AppStart ==
    /\ http = IdleHttp
    /\ life = IdleLife

(* --------------------------- specifications --------------------------- *)

\* The clients as constructed: every slot free, no session yet, the search
\* collaborator present or not according to the configuration.
Init ==
    /\ calls = [c \in Calls |-> IdleCall]
    /\ sem = [p \in Providers |-> MaxConcurrent]
    /\ session = "none"
    /\ search_service \in BOOLEAN
    /\ CacheStart
    /\ SearchStart
    /\ AppStart

AllOutcomes == UNION {Outcomes(p) : p \in Providers}

\* One caller, every input and every backend outcome.
Next ==
    \/ Classify(1, Texts, CatLists, BOOLEAN, Providers, CallerCids)
    \/ Admit(1)
    \/ SearchReturns(1)
    \/ AttemptReturns(1, AllOutcomes)
    \/ RetryWake(1)
    \/ Return(1)
    \/ Setup
    \/ Cleanup

Spec == Init /\ [][Next]_vars

\* Several concurrent callers on two client instances as the factory hands
\* them out (set up, no search collaborator), with one blank and one valid
\* text and, per client, a retryable failure and a well-formed response.
ConcTexts == {<<>>, <<"a">>}
ConcCatLists == {<<"food">>}
ConcProviders == {"ollama", "gemini"}
ConcOutcomes ==
    {Outcome("", 408, NoResponse), Outcome("ServiceUnavailable", 0, NoResponse),
     Outcome("", 200,
             Response("text", Payload("object", Str("food"), Str("why"), Absent, FALSE)))}

InitConc ==
    /\ calls = [c \in Calls |-> IdleCall]
    /\ sem = [p \in Providers |-> MaxConcurrent]
    /\ session = "open"
    /\ search_service = FALSE
    /\ CacheStart
    /\ SearchStart
    /\ AppStart

NextConc ==
    \E c \in Calls :
        \/ Classify(c, ConcTexts, ConcCatLists, {FALSE}, ConcProviders, {""})
        \/ Admit(c)
        \/ AttemptReturns(c, ConcOutcomes)
        \/ RetryWake(c)
        \/ Return(c)

SpecConc == InitConc /\ [][NextConc]_vars

\* The concurrent callers of one client under the scheduling of the event
\* loop: NumFairCalls callers of an Ollama client configured with
\* FairConcurrent slots, a valid and an empty text, an attempt that meets a
\* connection error, an undecodable answer or a well-formed one.  Every
\* provider attempt in progress ends (the premise that each backend attempt
\* terminates) and every tenacity sleep ends: weak fairness.  asyncio's
\* Semaphore wakes its waiters in the order they arrived, so a waiter is
\* admitted once slots keep being given back: strong fairness of admission.
\* Callers are free to call or not (Classify, Return: no fairness).
FairCallers == 1..NumFairCalls

FairOutcomes ==
    {Outcome("ClientConnectionError", 0, NoResponse),
     Outcome("", 200, Response("text", Undecodable)),
     Outcome("", 200,
             Response("text", Payload("object", Str("food"), Str("why"), Absent, FALSE)))}

InitFair ==
    /\ calls = [c \in Calls |-> IdleCall]
    /\ sem = [p \in Providers |-> FairConcurrent]
    /\ session = "open"
    /\ search_service = FALSE
    /\ CacheStart
    /\ SearchStart
    /\ AppStart

NextFair ==
    \E c \in FairCallers :
        \/ Classify(c, ConcTexts, ConcCatLists, {FALSE}, {"ollama"}, {""})
        \/ Admit(c)
        \/ AttemptReturns(c, FairOutcomes)
        \/ RetryWake(c)
        \/ Return(c)

FairConc ==
    \A c \in FairCallers :
        /\ WF_vars(AttemptReturns(c, FairOutcomes))
        /\ WF_vars(RetryWake(c))
        /\ SF_vars(Admit(c))

SpecFair == InitFair /\ [][NextFair]_vars /\ FairConc

\* Concurrent lookups of clients, in the cache of the /classify route and in
\* the cache of the client manager.
InitCache ==
    /\ calls = [c \in Calls |-> IdleCall]
    /\ sem = [p \in Providers |-> MaxConcurrent]
    /\ session = "none"
    /\ search_service = FALSE
    /\ CacheStart
    /\ SearchStart
    /\ AppStart

NextCache ==
    \E l \in Lookers :
        \/ GetCachedClient(l)
        \/ GetClient(l)
        \/ LockAcquired(l)
        \/ CreateReturns(l)
        \/ LookupReturn(l)

SpecCache == InitCache /\ [][NextCache]_vars

\* The search service on its own: one caller, every query and every outcome
\* of the HTTP request, in every state of the session.
InitSearch ==
    /\ calls = [c \in Calls |-> IdleCall]
    /\ sem = [p \in Providers |-> MaxConcurrent]
    /\ session = "none"
    /\ search_service = TRUE
    /\ CacheStart
    /\ SearchStart
    /\ AppStart

NextSearch ==
    \/ Search(Texts)
    \/ SearchAttemptReturns
    \/ SearchRetryWake
    \/ SearchReturn
    \/ SearchSetup
    \/ SearchCleanup

SpecSearch == InitSearch /\ [][NextSearch]_vars

\* The /classify endpoint: one request at a time, every text, category
\* list, model type and search flag, every outcome of the service.
InitRoute ==
    /\ calls = [c \in Calls |-> IdleCall]
    /\ sem = [p \in Providers |-> MaxConcurrent]
    /\ session = "open"
    /\ search_service = FALSE
    /\ CacheStart
    /\ SearchStart
    /\ AppStart

NextRoute ==
    \/ Post
    \/ ServiceReturns
    \/ HttpReturn

SpecRoute == InitRoute /\ [][NextRoute]_vars

\* The clients after their cleanup hooks have run (close_all, __aexit__):
\* the Ollama session is closed, the Gemini and OpenAI clients, whose hook
\* is the empty one of the base class, are as before.
InitClosed ==
    /\ calls = [c \in Calls |-> IdleCall]
    /\ sem = [p \in Providers |-> MaxConcurrent]
    /\ session = "closed"
    /\ search_service \in BOOLEAN
    /\ CacheStart
    /\ SearchStart
    /\ AppStart

NextClosed ==
    \/ Classify(1, ConcTexts, ConcCatLists, BOOLEAN, Providers, CallerCids)
    \/ Admit(1)
    \/ SearchReturns(1)
    \/ AttemptReturns(1, AllOutcomes)
    \/ RetryWake(1)
    \/ Return(1)

SpecClosed == InitClosed /\ [][NextClosed]_vars

\* The application from startup to shutdown: requests look clients up in
\* the manager while the lifespan has not ended, and the lifespan ends
\* normally or by an exception.
InitLife ==
    /\ calls = [c \in Calls |-> IdleCall]
    /\ sem = [p \in Providers |-> MaxConcurrent]
    /\ session = "none"
    /\ search_service = FALSE
    /\ CacheStart
    /\ SearchStart
    /\ AppStart

NextLife ==
    \/ \E l \in Lookers :
          \/ ServeGetClient(l)
          \/ ServeLockAcquired(l)
          \/ ServeCreateReturns(l)
          \/ ServeLookupReturn(l)
    \/ LifespanExit
    \/ CloseAll
    \/ LifespanRaise

SpecLife == InitLife /\ [][NextLife]_vars

(* ------------------------------ claims -------------------------------- *)

\* a text that is empty or holds nothing but whitespace
Blank(text) == \A i \in DOMAIN text : text[i] = " "

\* the inputs that the validation bounds exclude
OutOfBounds(text, cats) ==
    \/ Blank(text)
    \/ Len(text) > MaxTextLen
    \/ Len(cats) = 0
    \/ Len(cats) > MaxCategories

\* C1: a classify call whose payment_text is empty or all whitespace makes no
\* provider request at any time, and when it ends it ends in
\* LLMValidationError without a result, whatever the categories, the
\* use_search flag and the provider.
C1_BlankTextRejected ==
    \A c \in Calls :
        LET cl == calls[c]
        IN (cl.pc # "idle" /\ Blank(cl.text)) =>
              /\ cl.attempts = 0
              /\ cl.pc \in {"waiting", "done"}
              /\ cl.pc = "done" =>
                    (cl.exc.kind = "LLMValidationError" /\ cl.result = NoResult)

\* C1 witness: a whitespace-only text with valid categories and use_search
\* set has been rejected.
C1_Witness ==
    \E c \in Calls :
        /\ calls[c].pc = "done"
        /\ calls[c].text = <<" ", " ">>
        /\ Len(calls[c].cats) = 1
        /\ calls[c].use_search
        /\ calls[c].exc.kind = "LLMValidationError"

\* C2: a classify call with more categories than max_categories makes no
\* provider attempt and ends in LLMValidationError.
C2_TooManyCategoriesRejected ==
    \A c \in Calls :
        LET cl == calls[c]
        IN (cl.pc # "idle" /\ Len(cl.cats) > MaxCategories) =>
              /\ cl.attempts = 0
              /\ cl.pc = "done" => cl.exc.kind = "LLMValidationError"

\* C2 witness: a valid text with one category too many has been rejected.
C2_Witness ==
    \E c \in Calls :
        /\ calls[c].pc = "done"
        /\ calls[c].text = <<"a">>
        /\ Len(calls[c].cats) = MaxCategories + 1
        /\ calls[c].exc.kind = "LLMValidationError"

\* C3: validation is exact: a call past the semaphore has made no provider
\* attempt and ended in LLMValidationError if its inputs are out of bounds
\* (blank text, text longer than the maximum, no category, more categories
\* than the maximum), and otherwise, the bounds themselves included, it has
\* reached the provider request and does not end in LLMValidationError.
C3_ValidationExact ==
    \A c \in Calls :
        LET cl == calls[c]
        IN cl.pc \notin {"idle", "waiting"} =>
              IF OutOfBounds(cl.text, cl.cats)
              THEN cl.pc = "done" /\ cl.attempts = 0
                     /\ cl.exc.kind = "LLMValidationError"
              ELSE cl.attempts >= 1 /\ cl.exc.kind # "LLMValidationError"

\* C3 witness: a call with a text of exactly the maximum length and exactly
\* the maximum number of categories is at the provider request.
C3_Witness ==
    \E c \in Calls :
        /\ calls[c].pc = "requesting"
        /\ Len(calls[c].text) = MaxTextLen
        /\ Len(calls[c].cats) = MaxCategories
        /\ calls[c].attempts = 1

\* the exception classes the Ollama retry policy is meant to retry:
\* transport errors (aiohttp.ClientError), the rate-limit signal, the
\* timeout signal
OllamaRetryKinds ==
    {"ClientResponseError", "ClientConnectionError", "LLMRateLimitError",
     "LLMTimeoutError"}

\* C4: when every attempt of a finished call ended in a timeout condition
\* (HTTP 408 or 504, raised inside the attempt as LLMTimeoutError), exactly
\* max_retries attempts were made and the caller gets that LLMTimeoutError
\* itself, with the call's correlation id, neither wrapped nor replaced.
C4_TimeoutSurfacesAfterNAttempts ==
    \A c \in Calls :
        LET cl == calls[c]
        IN (cl.pc = "done" /\ cl.attempts >= 1 /\ cl.timeouts = cl.attempts) =>
              /\ cl.attempts = MaxRetries
              /\ cl.exc = Exc("LLMTimeoutError", cl.cid, ModelName(cl.provider), "", 0)
              /\ cl.result = NoResult

\* C4 witness: a call has ended after max_retries attempts that all timed
\* out.
C4_Witness ==
    \E c \in Calls :
        /\ calls[c].pc = "done"
        /\ calls[c].timeouts = MaxRetries
        /\ calls[c].attempts = MaxRetries
        /\ calls[c].exc.kind = "LLMTimeoutError"

\* C5: in the Ollama client a step that starts a further attempt is taken
\* only after an attempt that failed with a transport error, a rate-limit
\* signal or a timeout signal, and only while fewer than max_retries
\* attempts have been made; after any other failure of an attempt
\* (validation, decoding, parsing included) the call is over.
C5_OllamaRetryOnlyTransient ==
    [][\A c \in Calls :
          LET cl == calls[c]
          IN cl.provider = "ollama" =>
                /\ (cl.attempts >= 1 /\ calls'[c].attempts = cl.attempts + 1) =>
                      /\ cl.last.kind \in OllamaRetryKinds
                      /\ cl.attempts < MaxRetries
                /\ (cl.pc = "done" /\ calls'[c].pc # "idle") => calls'[c] = cl
                /\ (cl.last # NoExc /\ cl.last.kind \notin OllamaRetryKinds) =>
                      cl.pc = "done"
                /\ cl.exc.kind \in {"LLMValidationError", "LLMParseError"} =>
                      cl.pc = "done"]_vars

\* C5 witness: an Ollama call is in its second attempt after a rate-limit
\* signal.
C5_Witness ==
    \E c \in Calls :
        /\ calls[c].provider = "ollama"
        /\ calls[c].pc = "requesting"
        /\ calls[c].attempts = 2
        /\ calls[c].last.kind = "LLMRateLimitError"

\* C5 witness of the other half: an Ollama call ended after a single attempt
\* whose body could not be decoded.
C5_WitnessNoRetry ==
    \E c \in Calls :
        /\ calls[c].provider = "ollama"
        /\ calls[c].pc = "done"
        /\ calls[c].attempts = 1
        /\ calls[c].last.kind = "JSONDecodeError"

\* the decoded payload the parser works on: the text of the response, or
\* the "{}" the Ollama parser puts in place of a missing "response" member
Decoded(resp) == IF resp.env = "absent" THEN EmptyObject ELSE resp.body

\* the response carries a text (or the Ollama default) that decodes to JSON
HasDecoded(resp) ==
    resp.env \in {"text", "absent"} /\ Decoded(resp).t # "undecodable"

\* category or reasoning is missing from the decoded payload or is no string
\* (an array, a string, a number and null have neither member)
LacksStringField(d) ==
    d.t # "object" \/ d.category.t # "str" \/ d.reasoning.t # "str"

C7_WitnessEmpty ==
    \E c \in Calls :
        /\ calls[c].provider = "ollama"
        /\ calls[c].pc = "done"
        /\ calls[c].resp.body.category = Str("")
        /\ calls[c].result.category = Str("")
        /\ calls[c].exc = NoExc

\* C8: a response whose decoded payload lacks a string category or a string
\* reasoning (non-object JSON values included) ends the call in LLMParseError
\* or LLMClientError without a result, and no call ever holds a result whose
\* category or reasoning is not a string.
C8_NoResultWithoutStringFields ==
    \A c \in Calls :
        LET cl == calls[c]
        IN /\ (HasDecoded(cl.resp) /\ LacksStringField(Decoded(cl.resp))) =>
                 /\ cl.pc = "done"
                 /\ cl.exc.kind \in {"LLMParseError", "LLMClientError"}
                 /\ cl.result = NoResult
           /\ cl.result # NoResult =>
                 /\ cl.exc = NoExc
                 /\ cl.result.category.t = "str"
                 /\ cl.result.reasoning.t = "str"

\* C8 witness: a payload that decodes to a JSON number ended an Ollama call
\* in LLMClientError.
C8_Witness ==
    \E c \in Calls :
        /\ calls[c].provider = "ollama"
        /\ calls[c].pc = "done"
        /\ calls[c].resp.env = "text"
        /\ calls[c].resp.body.t = "number"
        /\ calls[c].exc.kind = "LLMClientError"

\* C9: every finished call has either a result or an exception of the
\* taxonomy; an exception of the taxonomy caught by classify leaves it as it
\* is, any other leaves as an LLMClientError with the call's correlation id,
\* the model name and the caught exception as cause.
C9_FailuresAreTyped ==
    \A c \in Calls :
        LET cl == calls[c]
        IN cl.pc = "done" =>
              /\ (cl.exc = NoExc) = (cl.raised = NoExc)
              /\ (cl.exc = NoExc) # (cl.result = NoResult)
              /\ cl.raised # NoExc =>
                    /\ cl.exc.kind \in Taxonomy
                    /\ IF cl.raised.kind \in Taxonomy
                       THEN cl.exc = cl.raised
                       ELSE cl.exc = Exc("LLMClientError", cl.cid,
                                         ModelName(cl.provider), cl.raised.kind, 0)

\* C9 witness: an HTTP 500 of the Ollama backend, a transport exception,
\* left classify as an LLMClientError with the call's correlation id.
C9_Witness ==
    \E c \in Calls :
        /\ calls[c].pc = "done"
        /\ calls[c].raised = Exc("ClientResponseError", "", "", "", 500)
        /\ calls[c].exc.kind = "LLMClientError"
        /\ calls[c].exc.cid = "req-1"
        /\ calls[c].exc.cause = "ClientResponseError"

\* the calls of client p that are past admission: inside the
\* `async with self._semaphore` block
InFlight(p) ==
    {c \in Calls : calls[c].provider = p
                     /\ calls[c].pc \in {"searching", "requesting", "backoff"}}

\* C10: at every step the calls of one client that are past admission number
\* at most max_concurrent_requests, the semaphore counts exactly the free
\* slots, and a suspended caller is let past the semaphore only in a
\* state where fewer than max_concurrent_requests calls of its client are
\* in flight.
C10_AdmissionBounded ==
    [][/\ \A p \in Providers :
             /\ Cardinality(InFlight(p)) <= MaxConcurrent
             /\ sem[p] = MaxConcurrent - Cardinality(InFlight(p))
       /\ \A c \in Calls :
             (calls[c].pc = "waiting" /\ calls'[c].pc # "waiting") =>
                Cardinality(InFlight(calls[c].provider)) < MaxConcurrent]_vars

\* C10 witness: max_concurrent_requests calls of the Ollama client are in
\* flight and a further caller of that client is suspended.
C10_Witness ==
    /\ Cardinality(InFlight("ollama")) = MaxConcurrent
    /\ \E c \in Calls : calls[c].provider = "ollama" /\ calls[c].pc = "waiting"

\* C11: a call keeps its semaphore slot from its first attempt to its last.
\* No step that takes the call from one point inside the retried request
\* (an attempt in progress or a backoff wait) to another changes the
\* semaphore of its client, and while the call waits in backoff or runs a
\* second or later attempt the free slots of its client are fewer than
\* max_concurrent_requests by exactly the calls in flight, this one included.
C11_SlotHeldAcrossRetries ==
    [][\A c \in Calls :
          LET cl == calls[c]
              p == cl.provider
          IN /\ (c \in InFlight(p) /\ calls'[c] # cl /\ calls'[c].pc # "done") =>
                   (calls'[c].provider = p /\ sem'[p] = sem[p])
             /\ (cl.pc = "backoff" \/ (c \in InFlight(p) /\ cl.attempts > 1)) =>
                   /\ sem[p] <= MaxConcurrent - 1
                   /\ sem[p] = MaxConcurrent - Cardinality(InFlight(p))]_vars

\* C11 witness: a call sleeps between two attempts and later runs a further
\* attempt, while every slot of its client is taken and another caller of
\* that client is kept waiting at the semaphore.
C11_Witness ==
    \E c, d \in Calls :
        /\ calls[c].pc = "requesting" /\ calls[c].attempts = MaxRetries
        /\ calls[d].pc = "waiting" /\ calls[d].provider = calls[c].provider
        /\ sem[calls[c].provider] = 0

\* the cache that a lookup goes through
CacheOf(via) == IF via = "route" THEN llm_clients ELSE manager.clients

\* the lookups of key in one cache that have returned a client
Served(via, key) ==
    {l \in Lookers : /\ lookups[l].pc = "done" /\ ~ lookups[l].failed
                   /\ lookups[l].via = via /\ lookups[l].key = key}

\* C12: in either cache and for every key, at most one client is ever
\* constructed, the cache holds an entry for the key exactly when that one
\* client has been constructed, and every lookup that returned a client
\* returned the client of that entry: any two lookups of the same key,
\* however they interleave, hold the same client object.
C12_OneClientPerKey ==
    \A via \in Caches, key \in CacheKeys :
        /\ constructed[via][key] <= 1
        /\ CacheOf(via)[key] = constructed[via][key]
        /\ \A l \in Served(via, key) :
              lookups[l].got # 0 /\ lookups[l].got = CacheOf(via)[key]
        /\ \A l1, l2 \in Served(via, key) : lookups[l1].got = lookups[l2].got

\* C12 witness: two lookups of the manager, both called while their common
\* key had no entry, have both returned, with the same client, and the
\* client was constructed once.
C12_Witness ==
    \E l1, l2 \in Lookers, key \in CacheKeys :
        /\ l1 # l2
        /\ {l1, l2} \subseteq Served("manager", key)
        /\ lookups[l1].first /\ lookups[l2].first
        /\ lookups[l1].got = lookups[l2].got
        /\ constructed["manager"][key] = 1

\* C13: when the search collaborator raises inside an attempt of an Ollama
\* call made with use_search, the attempt goes on: the request is sent with
\* the plain prompt (classify_user_prompt, no search results), nothing the
\* call raises is the search's exception, and a result produced by that
\* attempt carries search_used = FALSE.
C13_SearchFailureSwallowed ==
    \A c \in Calls :
        LET cl == calls[c]
        IN cl.found = "raised" =>
              /\ cl.provider = "ollama" /\ cl.use_search /\ search_service
              /\ cl.pc \in {"requesting", "backoff", "done"}
              /\ ~ cl.enriched
              /\ cl.prompt = "classify_user_prompt"
              /\ cl.last.kind # "SearchError" /\ cl.raised.kind # "SearchError"
              /\ (cl.pc = "done" /\ cl.raised = NoExc) =>
                    (cl.result # NoResult /\ cl.result.search_used = FALSE)
              /\ (cl.pc = "done" /\ cl.raised # NoExc) =>
                    (cl.resp # NoResponse \/ cl.last = cl.raised)

\* C13 witness: an Ollama call with use_search whose search raised has
\* ended with a result.
C13_Witness ==
    \E c \in Calls :
        /\ calls[c].pc = "done" /\ calls[c].found = "raised"
        /\ calls[c].use_search /\ calls[c].searches > 0
        /\ calls[c].result # NoResult /\ calls[c].result.search_used = FALSE
        /\ calls[c].prompt = "classify_user_prompt"

\* C14 as stated: a search that has ended has returned a list, whatever
\* happened and in whatever state the service was; no exception left it.
C14_AsStated ==
    gs_call.pc = "done" => (gs_call.returned /\ gs_call.raised = "")

\* C14: search raises in one case only, a query that is not blank put to a
\* service that has no session yet (never set up): LLMClientError, before
\* any attempt.  In every other case, whatever the request comes to
\* (transport error, timeout, error status, undecodable body, retries
\* exhausted, session closed), search returns a list, and whenever its last
\* attempt failed the list is empty.
C14_SearchRaisesOnlyUninitialized ==
    gs_call.pc = "done" =>
        LET uninitialized == ~ BlankQuery(gs_call.query) /\ gs_call.at_call = "none"
        IN /\ uninitialized =>
                 /\ gs_call.raised = "LLMClientError" /\ ~ gs_call.returned
                 /\ gs_call.attempts = 0
           /\ ~ uninitialized =>
                 /\ gs_call.raised = "" /\ gs_call.returned
                 /\ gs_call.last # "" => gs_call.items = 0

\* C14 witness: a search on a session that is set up has used up its
\* attempts on failures and returned the empty list.
C14_Witness ==
    /\ gs_call.pc = "done" /\ gs_call.at_call = "open"
    /\ gs_call.attempts = SearchMaxRetries /\ gs_call.last = "TimeoutError"
    /\ gs_call.returned /\ gs_call.items = 0 /\ gs_call.raised = ""

\* C14 witness: a search put to a service that was never set up has raised.
C14_WitnessUninitialized ==
    /\ gs_call.pc = "done" /\ gs_call.at_call = "none"
    /\ gs_call.raised = "LLMClientError"

\* C15: a search whose query is empty or all whitespace returns the empty
\* list without one invocation of _search_impl and without one HTTP
\* request, whether the service has no session, an open one or a closed one.
C15_BlankQueryShortCircuits ==
    (gs_call.pc # "idle" /\ Blank(gs_call.query)) =>
        /\ gs_call.pc = "done"
        /\ gs_call.returned /\ gs_call.items = 0 /\ gs_call.raised = ""
        /\ gs_call.attempts = 0 /\ gs_call.requests = 0

\* C15 witness: a whitespace query put to a service without a session has
\* returned the empty list.
C15_Witness ==
    /\ gs_call.pc = "done" /\ gs_call.query = <<" ">> /\ gs_call.at_call = "none"
    /\ gs_call.returned /\ gs_call.items = 0 /\ gs_call.attempts = 0

\* C16: a classify call makes no metrics record before it ends and exactly
\* one when it ends (one _record_metrics: one record_request_duration and
\* one llm_requests_total increment).  The record says success exactly when
\* the call returns a result; on a failure it carries an error_type, the
\* class name of a taxonomy exception and "UnexpectedError" for an exception
\* that classify wraps; on a success it carries none.
C16_MetricsOncePerCall ==
    \A c \in Calls :
        LET cl == calls[c]
        IN /\ cl.pc # "done" => cl.metrics = <<>>
           /\ cl.pc = "done" =>
                 /\ Len(cl.metrics) = 1
                 /\ cl.metrics[1].success = (cl.result # NoResult)
                 /\ cl.metrics[1].success = (cl.exc = NoExc)
                 /\ cl.metrics[1].success => cl.metrics[1].error_type = ""
                 /\ ~ cl.metrics[1].success =>
                       cl.metrics[1].error_type =
                          IF cl.raised.kind \in Taxonomy THEN cl.raised.kind
                          ELSE "UnexpectedError"

\* C16 witness: a call that ended on an exception outside the taxonomy has
\* its one record, a failure tagged UnexpectedError.
C16_Witness ==
    \E c \in Calls :
        /\ calls[c].pc = "done" /\ calls[c].raised.kind = "ClientConnectionError"
        /\ calls[c].metrics = <<[success |-> FALSE, error_type |-> "UnexpectedError"]>>

\* C16 witness: a call that ended in a validation failure has its one record.
C16_WitnessValidation ==
    \E c \in Calls :
        /\ calls[c].pc = "done" /\ calls[c].attempts = 0
        /\ calls[c].metrics = <<[success |-> FALSE, error_type |-> "LLMValidationError"]>>

\* C16 witness: a call that returned a result has its one record, a success.
C16_WitnessSuccess ==
    \E c \in Calls :
        /\ calls[c].pc = "done" /\ calls[c].result # NoResult
        /\ calls[c].metrics = <<[success |-> TRUE, error_type |-> ""]>>

\* what each provider's transport raises when a request exceeds the
\* configured timeout: asyncio.TimeoutError from aiohttp's ClientTimeout,
\* APITimeoutError from the OpenAI SDK, DeadlineExceeded from the Google API
TransportTimeouts == {"TimeoutError", "APITimeoutError", "DeadlineExceeded"}

\* the latest attempt of the call failed (no response reached the parser)
LastAttemptFailed(cl) ==
    \/ cl.pc = "backoff"
    \/ (cl.pc = "done" /\ cl.attempts > 0 /\ cl.last # NoExc /\ cl.raised = cl.last)

\* C17 as stated: for every provider, a call that ended because its
\* transport call exceeded the timeout ended in LLMTimeoutError.
C17_AsStated ==
    \A c \in Calls :
        LET cl == calls[c]
        IN (cl.pc = "done" /\ LastAttemptFailed(cl)
              /\ cl.last.kind \in TransportTimeouts) =>
              cl.exc.kind = "LLMTimeoutError"

\* C18 as stated: for every provider, an attempt that meets the backend's
\* throttling signal is followed by a backoff and a further attempt while
\* attempts remain, and a call all of whose max_retries attempts met it
\* ends in LLMRateLimitError.
C18_AsStated ==
    \A c \in Calls :
        LET cl == calls[c]
        IN (cl.attempts > 0 /\ cl.throttles = cl.attempts /\ cl.pc \in {"backoff", "done"}) =>
              /\ cl.pc = "backoff" <=> cl.attempts < MaxRetries
              /\ cl.pc = "done" => cl.exc.kind = "LLMRateLimitError"

\* C19: in an Ollama call, an attempt whose response has status 429 raises
\* LLMRateLimitError and one whose response has status 408 or 504 raises
\* LLMTimeoutError, and no other attempt raises either kind.  The attempt
\* is followed by a backoff exactly while attempts remain, and the call
\* that ends on it, all attempts used, ends in that exception unchanged.
C19_OllamaStatusMapping ==
    \A c \in Calls :
        LET cl == calls[c]
        IN (cl.provider = "ollama" /\ LastAttemptFailed(cl)) =>
              /\ cl.last.kind = "LLMRateLimitError" <=> cl.status = 429
              /\ cl.last.kind = "LLMTimeoutError" <=> cl.status \in {408, 504}
              /\ cl.status \in {408, 429, 504} =>
                    /\ cl.pc = "backoff" <=> cl.attempts < MaxRetries
                    /\ cl.pc = "done" => (cl.exc = cl.last /\ cl.result = NoResult)

\* C19 witness: an Ollama call has used all its attempts, the last one
\* answered with status 429, and has ended in LLMRateLimitError.
C19_Witness ==
    \E c \in Calls :
        /\ calls[c].provider = "ollama" /\ calls[c].pc = "done"
        /\ calls[c].status = 429 /\ calls[c].attempts = MaxRetries
        /\ calls[c].exc.kind = "LLMRateLimitError"

\* C19 witness: an Ollama call whose attempt was answered with status 500
\* did not end in either kind.
C19_WitnessOtherStatus ==
    \E c \in Calls :
        /\ calls[c].provider = "ollama" /\ calls[c].pc = "done"
        /\ calls[c].status = 500 /\ calls[c].raised.kind = "ClientResponseError"

\* the exceptions the OpenAI client is said to retry: timeout, connection
\* and rate-limit exceptions of the SDK, and a status error with status >= 500
OpenAIRetryable(e) ==
    \/ e.kind \in {"APITimeoutError", "APIConnectionError", "RateLimitError"}
    \/ (e.kind = "APIStatusError" /\ e.status >= 500)

\* C20: when an attempt of an OpenAI call fails, a backoff and a further
\* attempt follow exactly if the exception is retryable (timeout,
\* connection, rate-limit, or status error >= 500) and fewer than
\* max_retries attempts have been made; otherwise the call ends there on
\* that exception.  In particular a status error below 500 ends the call at
\* the attempt that met it.
C20_OpenAIRetryExact ==
    [][\A c \in Calls :
          LET cl == calls[c]
              cl2 == calls'[c]
          IN /\ (cl.provider = "openai" /\ cl.pc = "requesting" /\ cl2 # cl
                   /\ cl2.resp = NoResponse) =>
                   /\ cl2.last # NoExc /\ cl2.attempts = cl.attempts
                   /\ cl2.pc = "backoff" <=>
                         (OpenAIRetryable(cl2.last) /\ cl.attempts < MaxRetries)
                   /\ cl2.pc # "backoff" => (cl2.pc = "done" /\ cl2.raised = cl2.last)
                   /\ (cl2.last.kind = "APIStatusError" /\ cl2.last.status < 500) =>
                         cl2.pc = "done"
             /\ (cl.provider = "openai" /\ cl.pc = "backoff" /\ cl2 # cl) =>
                   (cl2.pc = "requesting" /\ cl2.attempts = cl.attempts + 1)]_vars

\* C20 witness: an OpenAI call has ended after a single attempt, which met
\* a status error 400.
C20_Witness ==
    \E c \in Calls :
        /\ calls[c].provider = "openai" /\ calls[c].pc = "done"
        /\ calls[c].attempts = 1
        /\ calls[c].last.kind = "APIStatusError" /\ calls[c].last.status = 400

\* C20 witness: an OpenAI call waits in backoff after a status error 500.
C20_WitnessServerError ==
    \E c \in Calls :
        /\ calls[c].provider = "openai" /\ calls[c].pc = "backoff"
        /\ calls[c].last.kind = "APIStatusError" /\ calls[c].last.status = 500

\* the conditions the Gemini client is said to retry
GeminiRetryable(e) ==
    e.kind \in {"ResourceExhausted", "ServiceUnavailable", "InternalServerError"}

\* the content-safety rejections of the Gemini SDK
ContentSafety == {"BlockedPromptException", "StopCandidateException"}

\* C21: when an attempt of a Gemini call fails, a backoff and a further
\* attempt follow exactly if it failed with ResourceExhausted,
\* ServiceUnavailable or InternalServerError and fewer than max_retries
\* attempts have been made, so that no call makes more than max_retries
\* attempts.  A content-safety rejection is raised by the attempt as an
\* LLMClientError with the call's correlation id and the model name, and it
\* ends the call at that attempt with that exception: no attempt follows it.
C21_GeminiRetryExact ==
    [][\A c \in Calls :
          LET cl == calls[c]
              cl2 == calls'[c]
          IN /\ (cl.provider = "gemini" /\ cl.pc = "requesting" /\ cl2 # cl
                   /\ cl2.resp = NoResponse) =>
                   /\ cl2.last # NoExc /\ cl2.attempts = cl.attempts
                   /\ cl2.attempts <= MaxRetries
                   /\ cl2.pc = "backoff" <=>
                         (GeminiRetryable(cl2.last) /\ cl.attempts < MaxRetries)
                   /\ cl2.pc # "backoff" => (cl2.pc = "done" /\ cl2.raised = cl2.last)
                   /\ cl2.last.kind \notin ContentSafety
                   /\ cl2.last.cause \in ContentSafety =>
                         /\ cl2.pc = "done"
                         /\ cl2.exc = Exc("LLMClientError", cl.cid, ModelName("gemini"),
                                          cl2.last.cause, 0)
             /\ (cl.provider = "gemini" /\ cl.pc = "backoff" /\ cl2 # cl) =>
                   (cl2.pc = "requesting" /\ cl2.attempts = cl.attempts + 1)]_vars

\* C21 witness: a Gemini call has ended in LLMClientError after one attempt,
\* which met a blocked prompt.
C21_Witness ==
    \E c \in Calls :
        /\ calls[c].provider = "gemini" /\ calls[c].pc = "done"
        /\ calls[c].attempts = 1
        /\ calls[c].exc.kind = "LLMClientError"
        /\ calls[c].exc.cause = "BlockedPromptException"

\* C21 witness: a Gemini call has used all its attempts on ServiceUnavailable.
C21_WitnessExhausted ==
    \E c \in Calls :
        /\ calls[c].provider = "gemini" /\ calls[c].pc = "done"
        /\ calls[c].attempts = MaxRetries
        /\ calls[c].last.kind = "ServiceUnavailable" /\ calls[c].raised = calls[c].last

\* C22 as stated: the response to a request whose service call raised has
\* status 400 for a validation error (LLMValidationError, ValueError), 408
\* for a timeout error, 422 for a parse error, 503 for any other taxonomy
\* error and 500 for any other exception.
C22_AsStated ==
    (http.pc = "done" /\ http.raised # "") =>
        http.status =
           (IF http.raised \in {"LLMValidationError", "ValueError"} THEN 400
            ELSE IF http.raised = "LLMTimeoutError" THEN 408
            ELSE IF http.raised = "LLMParseError" THEN 422
            ELSE IF http.raised \in Taxonomy THEN 503
            ELSE 500)

\* C23 as stated: every exception that leaves classify is of the taxonomy
\* and carries the call's correlation id, whatever the failure path.
C23_AsStated ==
    \A c \in Calls :
        LET cl == calls[c]
        IN (cl.pc = "done" /\ cl.exc # NoExc) =>
              /\ cl.exc.kind \in Taxonomy
              /\ cl.cid # "" /\ cl.exc.cid = cl.cid

\* a decoded payload that is an object with string category and reasoning
\* and a confidence that is absent or a number
WellFormed(d) ==
    /\ d.t = "object"
    /\ d.category.t = "str" /\ d.reasoning.t = "str"
    /\ d.confidence.t # "str"

\* C24: for every provider, a call made with use_search false whose backend
\* answered with a well-formed payload returns a result: category and
\* reasoning are the payload's, search_used is FALSE, model_used is the
\* client's model name, the correlation id is the call's, no exception
\* leaves the call and its one metrics record says success.
C24_HappyPath ==
    \A c \in Calls :
        LET cl == calls[c]
        IN (cl.pc = "done" /\ ~ cl.use_search
              /\ cl.resp.env = "text" /\ WellFormed(cl.resp.body)) =>
              /\ cl.exc = NoExc /\ cl.raised = NoExc
              /\ cl.result # NoResult
              /\ cl.result.category = cl.resp.body.category
              /\ cl.result.reasoning = cl.resp.body.reasoning
              /\ cl.result.search_used = FALSE
              /\ cl.result.model_used = ModelName(cl.provider)
              /\ cl.result.correlation_id = cl.cid
              /\ cl.metrics = <<[success |-> TRUE, error_type |-> ""]>>

\* C24 witness: a Gemini call without search has returned the category and
\* the reasoning its backend gave.
C24_Witness ==
    \E c \in Calls :
        /\ calls[c].pc = "done" /\ calls[c].provider = "gemini"
        /\ ~ calls[c].use_search
        /\ calls[c].resp = Response("text", Payload("object", Str("food"), Str("why"),
                                                    Absent, FALSE))
        /\ calls[c].result.category = Str("food")
        /\ calls[c].result.reasoning = Str("why")
        /\ calls[c].result.model_used = ModelName("gemini")

\* the label at position i of a list as sent, stripped and in lower case
Folded(raw, i) == Lower(Strip(raw[i]))

\* the positions of a list as sent that hold a label which is not blank and
\* which no earlier position holds, case ignored
Kept(raw) ==
    {i \in DOMAIN raw :
        /\ Strip(raw[i]) # <<>>
        /\ \A k \in 1..(i - 1) : Folded(raw, k) # Folded(raw, i)}

\* the request has been constructed and handed to the service
Accepted == http.pc # "idle" /\ http.accepted

\* C25: the category list of an accepted request holds, in the order of the
\* list as sent, the stripped label of every position whose label is not
\* blank and does not repeat an earlier one under case-insensitive
\* comparison, and nothing else; so it has no blank entry and no two entries
\* equal ignoring case.  That list is the one handed to the provider call.
C25_CategoriesNormalized ==
    Accepted =>
        LET raw == http.raw
            cats == http.categories
        IN /\ Len(cats) = Cardinality(Kept(raw))
           /\ \A i \in Kept(raw) :
                 cats[Cardinality({k \in Kept(raw) : k <= i})] = Strip(raw[i])
           /\ \A j \in DOMAIN cats : cats[j] # <<>> /\ Strip(cats[j]) = cats[j]
           /\ \A j, k \in DOMAIN cats : j # k => Lower(cats[j]) # Lower(cats[k])
           /\ http.args.categories = cats

\* C25 witness: a list with a padded label, a repeat in another case and a
\* further label has been normalized to two labels and handed on.
C25_Witness ==
    /\ http.pc = "serving"
    /\ http.raw = << <<" ", "a">>, <<"A">>, <<"b">> >>
    /\ http.categories = << <<"a">>, <<"b">> >>
    /\ http.args.categories = << <<"a">>, <<"b">> >>

\* the request's other fields are acceptable
OthersValid ==
    Len(http.payment_text) >= 1 /\ ~ (http.use_search /\ http.model_type = "cloud")

\* C26: a request is accepted only if the labels of its category list that
\* are left after blank removal and case-insensitive deduplication number
\* at least 1 and at most the maximum (20), and it is accepted whenever
\* they do and its other fields are valid: a list of blank labels and a list
\* with more distinct labels than the maximum are rejected, a longer list
\* that repeats labels is not.
C26_CategoryCountBounds ==
    http.pc # "idle" =>
        LET n == Cardinality(Kept(http.raw))
        IN /\ http.accepted => (n >= 1 /\ n <= MaxRequestCategories)
           /\ (n = 0 \/ n > MaxRequestCategories) =>
                 (~ http.accepted /\ http.pc = "done" /\ http.status = 422)
           /\ (n >= 1 /\ n <= MaxRequestCategories /\ OthersValid) => http.accepted

\* C26 witness: a list longer than the maximum whose distinct labels are
\* within it has been accepted.
C26_Witness ==
    /\ Accepted
    /\ Len(http.raw) = MaxRequestCategories + 1
    /\ Cardinality(Kept(http.raw)) = MaxRequestCategories

\* C26 witness: a list with more distinct labels than the maximum has been
\* rejected.
C26_WitnessTooMany ==
    /\ http.pc = "done" /\ ~ http.accepted
    /\ Cardinality(Kept(http.raw)) = MaxRequestCategories + 1
    /\ Len(http.payment_text) >= 1

\* C27: no accepted request has use_search with model type cloud: such a
\* request is rejected when it is constructed, and use_search with model
\* type local is accepted when the other fields are valid.
C27_SearchOnlyLocal ==
    http.pc # "idle" =>
        /\ http.accepted => ~ (http.use_search /\ http.model_type = "cloud")
        /\ (http.use_search /\ http.model_type = "cloud") =>
              (http.pc = "done" /\ http.status = 422 /\ http.args = NoArgs)
        /\ (http.use_search /\ http.model_type = "local"
              /\ Len(http.payment_text) >= 1 /\ ValidateCategories(http.raw) = "") =>
              (http.accepted /\ http.args.use_search)

\* C27 witness: a request with use_search and model type local is being
\* served.
C27_Witness ==
    /\ http.pc = "serving" /\ http.use_search /\ http.model_type = "local"
    /\ http.args.use_search /\ http.args.provider_type = "ollama"

\* C27 witness: a request with use_search and model type cloud, valid
\* otherwise, has been rejected.
C27_WitnessCloud ==
    /\ http.pc = "done" /\ ~ http.accepted
    /\ http.use_search /\ http.model_type = "cloud"
    /\ Len(http.payment_text) >= 1 /\ ValidateCategories(http.raw) = ""

\* C28 as stated: a classify call made on a client whose cleanup hook has
\* run sends nothing to the backend and ends without a result, in an
\* exception of the taxonomy.
C28_AsStated ==
    \A c \in Calls :
        LET cl == calls[c]
        IN /\ cl.pc # "requesting"
           /\ cl.pc = "done" => (cl.result = NoResult /\ cl.exc.kind \in Taxonomy)

\* C29 as stated: once the lifespan has ended, however it was made to end,
\* close_all has been invoked exactly once and no client is left in the
\* manager's cache with its cleanup hook not run.
C29_AsStated ==
    life.pc = "stopped" =>
        /\ life.close_alls = 1
        /\ \A key \in CacheKeys : manager.clients[key] = 0

\* C30: the concurrency bound belongs to the client instance.  A suspended
\* caller of client p can be let past the semaphore exactly when p itself
\* has a free slot, whatever the other clients' slots are, so a client with
\* every slot taken never holds back a caller of another client; and the
\* step that admits the caller takes a slot of p only.
C30_BoundPerInstance ==
    [][\A c \in Calls :
          LET p == calls[c].provider
          IN calls[c].pc = "waiting" =>
                /\ (ENABLED Admit(c)) <=> sem[p] > 0
                /\ calls'[c].pc # "waiting" =>
                      \A q \in Providers \ {p} : sem'[q] = sem[q]]_vars

\* C30 witness: every slot of the Ollama client is taken and a call of the
\* Gemini client is in flight all the same, so the calls in flight across
\* the two clients number more than max_concurrent_requests.
C30_Witness ==
    /\ sem["ollama"] = 0
    /\ Cardinality(InFlight("ollama")) = MaxConcurrent
    /\ InFlight("gemini") # {}
    /\ Cardinality(InFlight("ollama") \cup InFlight("gemini")) > MaxConcurrent

\* C30 witness: a caller of the Gemini client waits at the semaphore, free to
\* pass, while every slot of the Ollama client is taken.
C30_WitnessAdmissible ==
    /\ sem["ollama"] = 0
    /\ \E c \in Calls :
          /\ calls[c].pc = "waiting" /\ calls[c].provider = "gemini"
          /\ ENABLED Admit(c)

\* C31: a classify call whose inputs violate the validation bounds is
\* rejected without waiting for a slot.  Whenever such a call stands at the
\* semaphore, the step that validates and rejects it can be taken, also
\* when every slot of its client is held by calls in flight.
C31_AsStated ==
    \A c \in Calls :
        (calls[c].pc = "waiting" /\ OutOfBounds(calls[c].text, calls[c].cats)) =>
            ENABLED Admit(c)

\* C32: one correlation id serves a classify call throughout.  It is the
\* caller's when one was supplied; the provider request of every attempt
\* carries it in a header, every metrics record of the call carries it among
\* its tags, and the returned result is stamped with it.
C32_AsStated ==
    \A c \in Calls :
        LET cl == calls[c]
        IN cl.pc # "idle" =>
              /\ cl.cid # ""
              /\ cl.cid_in # "" => cl.cid = cl.cid_in
              /\ cl.pc = "requesting" =>
                    \E h \in DOMAIN RequestHeaders(cl) : RequestHeaders(cl)[h] = cl.cid
              /\ \A i \in DOMAIN cl.metrics :
                    /\ "correlation_id" \in DOMAIN cl.metrics[i]
                    /\ cl.metrics[i]["correlation_id"] = cl.cid
              /\ cl.result # NoResult => cl.result.correlation_id = cl.cid

\* the exceptions of a search attempt that are transport errors
\* (aiohttp.ClientError and its subclasses) or timeouts
SearchTransportOrTimeout ==
    {"ClientError", "ClientResponseError", "ClientConnectionError",
     "ContentTypeError", "TimeoutError"}

\* C33: the search service retries an attempt only when it raised a
\* transport error or a timeout and fewer than max_retries attempts have been
\* made; status 429 is raised as a transport error and 408/504 as a timeout;
\* a search call never makes more than max_retries attempts; and a call whose
\* last attempt failed returns an empty list and raises nothing.
C33_SearchRetryBounded ==
    [][/\ gs_call.attempts <= SearchMaxRetries
       /\ \A out \in GsOutcomes :
             /\ out.status = 429 => SearchRaises(out) = "ClientError"
             /\ out.status \in {408, 504} => SearchRaises(out) = "TimeoutError"
       /\ (gs_call.pc = "requesting" /\ gs_call'.pc = "backoff") =>
             /\ gs_call'.last \in SearchTransportOrTimeout
             /\ gs_call.attempts < SearchMaxRetries
       /\ (gs_call.pc \in {"requesting", "backoff"} /\ gs_call'.pc = "done"
             /\ gs_call'.last # "") =>
             /\ gs_call'.last \in SearchTransportOrTimeout
                   => gs_call'.attempts = SearchMaxRetries
             /\ gs_call'.returned /\ gs_call'.items = 0 /\ gs_call'.raised = ""
       /\ (gs_call.pc = "backoff" /\ gs_call' # gs_call) =>
             (gs_call'.attempts = gs_call.attempts + 1
                 /\ gs_call'.attempts <= SearchMaxRetries)]_vars

\* C33 witness: a search call made max_retries attempts, the last of which
\* met a timeout status, and returned an empty list.
C33_Witness ==
    /\ gs_call.pc = "done"
    /\ gs_call.attempts = SearchMaxRetries
    /\ gs_call.requests = SearchMaxRetries
    /\ gs_call.last = "TimeoutError"
    /\ gs_call.returned /\ gs_call.items = 0 /\ gs_call.raised = ""

\* C33 witness: an attempt raised an exception that is neither a transport
\* error nor a timeout; the call ended after that one attempt with an empty
\* list.
C33_WitnessNotRetried ==
    /\ gs_call.pc = "done"
    /\ gs_call.attempts = 1
    /\ gs_call.last = "JSONDecodeError"
    /\ gs_call.returned /\ gs_call.items = 0

\* the category of payload d is none of the categories of the request
Foreign(d, cats) == \A i \in DOMAIN cats : cats[i] # d.category.s

\* C34: category membership is not enforced.  A call whose backend answered
\* with a well-formed payload naming a category that the request did not
\* list returns a result all the same, with that category as the backend
\* gave it, and records a success.
C34_MembershipNotEnforced ==
    \A c \in Calls :
        LET cl == calls[c]
        IN (cl.pc = "done" /\ cl.resp.env = "text" /\ WellFormed(cl.resp.body)
              /\ Foreign(cl.resp.body, cl.cats)) =>
              /\ cl.exc = NoExc
              /\ cl.result # NoResult
              /\ cl.result.category = cl.resp.body.category
              /\ cl.metrics[Len(cl.metrics)].success

\* C34 witness: a call that listed "food" has returned the category "misc".
C34_Witness ==
    \E c \in Calls :
        /\ calls[c].pc = "done"
        /\ calls[c].cats = <<"food">>
        /\ calls[c].resp.env = "text"
        /\ calls[c].resp.body.category = Str("misc")
        /\ calls[c].result # NoResult
        /\ calls[c].result.category = Str("misc")

\* C35: the slot of a classify call is given back on every way out of the
\* call.  A step that ends a call in flight, with a result or with any
\* exception, frees exactly one slot of its client; a call rejected by
\* validation leaves the slots as they were; and whenever no call of a
\* client is in flight every slot of that client is free.
C35_SlotReleasedOnEveryExit ==
    [][/\ \A p \in Providers : InFlight(p) = {} => sem[p] = MaxConcurrent
       /\ \A c \in Calls :
             LET p == calls[c].provider
             IN /\ (c \in InFlight(p) /\ calls'[c].pc = "done") =>
                      sem'[p] = sem[p] + 1
                /\ (calls[c].pc = "waiting" /\ calls'[c].pc = "done") =>
                      (calls'[c].exc.kind = "LLMValidationError" /\ sem' = sem)]_vars

\* C35 witness: three calls have ended, one with a result, one rejected by
\* validation, one with an unexpected exception wrapped after its retries,
\* and every slot of every client is free.
C35_Witness ==
    /\ \A p \in Providers : sem[p] = MaxConcurrent
    /\ \E c, d, e \in Calls :
          /\ calls[c].pc = "done" /\ calls[c].result # NoResult
          /\ calls[d].pc = "done" /\ calls[d].exc.kind = "LLMValidationError"
          /\ calls[e].pc = "done" /\ calls[e].exc.kind = "LLMClientError"
          /\ calls[e].attempts = MaxRetries
          /\ ~ IsKnownError(calls[e].raised)

\* C35 witness: a call has ended with a known error propagated after its
\* retries, and every slot of its client is free.
C35_WitnessKnownError ==
    /\ sem["ollama"] = MaxConcurrent
    /\ \E c \in Calls :
          /\ calls[c].pc = "done" /\ calls[c].provider = "ollama"
          /\ calls[c].exc.kind = "LLMTimeoutError"
          /\ calls[c].exc = calls[c].raised
          /\ calls[c].attempts = MaxRetries

\* C36: under the fair scheduling of the event loop, every caller suspended
\* on the semaphore is eventually let past it, every call in flight
\* eventually ends, and a call with valid input that has ended has a result
\* or a taxonomy exception and made at least one and at most max_retries
\* provider attempts.
C36_CallsTerminate ==
    /\ \A c \in FairCallers :
          (calls[c].pc = "waiting") ~> (calls[c].pc # "waiting")
    /\ \A c \in FairCallers :
          (calls[c].pc \in {"searching", "requesting", "backoff"})
              ~> (calls[c].pc = "done")
    /\ [](\A c \in Calls :
            (calls[c].pc = "done" /\ ~ OutOfBounds(calls[c].text, calls[c].cats)) =>
                /\ calls[c].attempts \in 1..MaxRetries
                /\ (calls[c].result # NoResult) # (calls[c].exc # NoExc)
                /\ calls[c].exc # NoExc => calls[c].exc.kind \in Taxonomy)

\* C36 witness: every slot of a client is taken by calls in flight, one of
\* them on its last attempt after retries, while a further caller of that
\* client is suspended on the semaphore.
C36_Witness ==
    \E c, d \in Calls :
        /\ c # d
        /\ calls[c].provider = calls[d].provider
        /\ sem[calls[c].provider] = 0
        /\ calls[c].pc = "waiting"
        /\ ~ OutOfBounds(calls[c].text, calls[c].cats)
        /\ calls[d].pc = "requesting" /\ calls[d].attempts = MaxRetries

\* the search of the current attempt of call cl was asked for, had a
\* collaborator to run on, and returned at least one result
SearchGaveResults(cl) == cl.use_search /\ search_service /\ cl.found = "results"

\* C37: in the Ollama client the request of an attempt is sent with the
\* search-enriched prompt exactly when use_search is true, a search
\* collaborator is configured and the search of that attempt returned at
\* least one result, and otherwise with the plain prompt; the search_used
\* flag of a result is true exactly when the request that produced it was
\* sent with the enriched prompt.
C37_SearchUsedIffEnriched ==
    \A c \in Calls :
        LET cl == calls[c]
        IN cl.provider = "ollama" =>
              /\ cl.pc = "requesting" =>
                    cl.prompt = (IF SearchGaveResults(cl)
                                 THEN "classify_user_prompt_with_search"
                                 ELSE "classify_user_prompt")
              /\ (cl.pc = "done" /\ cl.result # NoResult) =>
                    /\ cl.result.search_used
                          <=> cl.prompt = "classify_user_prompt_with_search"
                    /\ cl.result.search_used <=> SearchGaveResults(cl)

\* C37 witness: an Ollama call with use_search whose search returned results
\* has a result with search_used true.
C37_Witness ==
    \E c \in Calls :
        /\ calls[c].pc = "done" /\ calls[c].provider = "ollama"
        /\ calls[c].use_search /\ search_service /\ calls[c].found = "results"
        /\ calls[c].prompt = "classify_user_prompt_with_search"
        /\ calls[c].result # NoResult /\ calls[c].result.search_used

\* C37 witness: an Ollama call with use_search whose search returned an
\* empty list has a result with search_used false.
C37_WitnessEmpty ==
    \E c \in Calls :
        /\ calls[c].pc = "done" /\ calls[c].provider = "ollama"
        /\ calls[c].use_search /\ calls[c].found = "empty"
        /\ calls[c].prompt = "classify_user_prompt"
        /\ calls[c].result # NoResult /\ ~ calls[c].result.search_used

\* C37 witness: an Ollama call with use_search on a client without search
\* collaborator has a result with search_used false and made no search.
C37_WitnessNoCollaborator ==
    \E c \in Calls :
        /\ calls[c].pc = "done" /\ calls[c].provider = "ollama"
        /\ calls[c].use_search /\ ~ search_service /\ calls[c].searches = 0
        /\ calls[c].prompt = "classify_user_prompt"
        /\ calls[c].result # NoResult /\ ~ calls[c].result.search_used

\* the attempt of call cl in progress or last made was stopped by the
\* session check that precedes the search: no search, no request
StoppedAtSessionCheck(cl) ==
    /\ cl.pc = "done" /\ cl.found = "" /\ cl.prompt = ""
    /\ cl.raised = Exc("LLMClientError", cl.cid, ModelName("ollama"), "", 0)

\* C38: in the Ollama client with use_search true and a search collaborator
\* configured the search is made inside each attempt.  While an attempt
\* waits for its search the searches made are one fewer than the attempts,
\* and from then on as many as the attempts (an attempt stopped by the
\* session check ahead of the search makes neither search nor request); the
\* search_used flag of the result tells how the search of the last attempt
\* ended.
C38_SearchInsideEachAttempt ==
    \A c \in Calls :
        LET cl == calls[c]
        IN (cl.provider = "ollama" /\ cl.use_search /\ search_service) =>
              /\ cl.pc = "searching" => cl.searches = cl.attempts - 1
              /\ cl.pc \in {"requesting", "backoff"} => cl.searches = cl.attempts
              /\ (cl.pc = "done" /\ cl.attempts > 0) =>
                    IF StoppedAtSessionCheck(cl)
                    THEN cl.searches = cl.attempts - 1
                    ELSE cl.searches = cl.attempts
              /\ (cl.pc = "done" /\ cl.result # NoResult) =>
                    /\ cl.searches = cl.attempts
                    /\ cl.result.search_used <=> cl.found = "results"

\* C38 witness: an Ollama call with search made max_retries attempts and as
\* many searches; the search of its last attempt found nothing and its
\* result says search_used false.
C38_Witness ==
    \E c \in Calls :
        /\ calls[c].pc = "done" /\ calls[c].provider = "ollama"
        /\ calls[c].use_search /\ search_service
        /\ calls[c].attempts = MaxRetries /\ calls[c].searches = MaxRetries
        /\ calls[c].found = "empty"
        /\ calls[c].result # NoResult /\ ~ calls[c].result.search_used

\* C38 witness: the same with results found by the search of the last
\* attempt.
C38_WitnessResults ==
    \E c \in Calls :
        /\ calls[c].pc = "done" /\ calls[c].provider = "ollama"
        /\ calls[c].use_search /\ search_service
        /\ calls[c].attempts = MaxRetries /\ calls[c].searches = MaxRetries
        /\ calls[c].found = "results"
        /\ calls[c].result # NoResult /\ calls[c].result.search_used

\* the HTTP error statuses that the Ollama client leaves to raise_for_status
OtherErrorStatus(st) == st >= 400 /\ st \notin {429, 408, 504}

\* C39: an Ollama attempt answered with an HTTP error status other than 429,
\* 408 and 504 is retried while fewer than max_retries attempts have been
\* made; the call that ends on such an answer has made max_retries attempts
\* and fails with an LLMClientError proper, carrying the call's correlation
\* id and the model name, whose cause is the transport exception.
C39_OtherStatusRetriedThenWrapped ==
    [][\A c \in Calls :
          LET cl == calls[c]
              cl2 == calls'[c]
          IN (cl.provider = "ollama" /\ cl.pc = "requesting" /\ cl2 # cl
                /\ OtherErrorStatus(cl2.status)) =>
                /\ cl2.last.kind = "ClientResponseError"
                /\ cl2.last.status = cl2.status
                /\ cl.attempts < MaxRetries => cl2.pc = "backoff"
                /\ cl.attempts >= MaxRetries =>
                      /\ cl2.pc = "done" /\ cl2.attempts = MaxRetries
                      /\ cl2.result = NoResult
                      /\ cl2.raised = cl2.last
                      /\ cl2.exc = Exc("LLMClientError", cl.cid, ModelName("ollama"),
                                       "ClientResponseError", 0)]_vars

\* C39 witness: an Ollama call has ended after max_retries attempts, the last
\* answered by status 500, in an LLMClientError wrapping the
\* ClientResponseError.
C39_Witness ==
    \E c \in Calls :
        /\ calls[c].pc = "done" /\ calls[c].provider = "ollama"
        /\ calls[c].status = 500 /\ calls[c].attempts = MaxRetries
        /\ calls[c].exc.kind = "LLMClientError"
        /\ calls[c].exc.cause = "ClientResponseError"

\* C39 witness: an Ollama attempt answered by status 404 is followed by a
\* backoff wait.
C39_WitnessRetried ==
    \E c \in Calls :
        /\ calls[c].pc = "backoff" /\ calls[c].provider = "ollama"
        /\ calls[c].status = 404 /\ calls[c].last.kind = "ClientResponseError"

\* a response of the OpenAI backend that cannot be read as a completion:
\* choices empty, message missing, or content that json.loads cannot decode
UnreadableCompletion(resp) ==
    \/ resp.env \in {"noChoices", "noMessage"}
    \/ (resp.env = "text" /\ resp.body.t = "undecodable")

\* C40: an OpenAI call whose backend answered with a response that cannot be
\* read as a completion ends in LLMParseError with the call's correlation id
\* and the model name, for each of the shapes.
C40_AsStated ==
    \A c \in Calls :
        LET cl == calls[c]
        IN (cl.pc = "done" /\ cl.provider = "openai" /\ UnreadableCompletion(cl.resp)) =>
              /\ cl.result = NoResult
              /\ cl.exc.kind = "LLMParseError"
              /\ cl.exc.cid = cl.cid
              /\ cl.exc.model = ModelName("openai")

====
